---- MODULE Spec2Model ----
(***************************************************************************)
(* Model of the OhaAsa fortune pipeline: the ranking normalizer            *)
(* (src/lib/fortuneEngine.js, src/lib/fortuneScores.js), the seeded        *)
(* random generator and the fortune generator.                             *)
(*                                                                         *)
(* JavaScript values are tagged records [t |-> tag, v |-> payload]:        *)
(*   undef, null, bool, num (an integer Number), frac (a Number strictly   *)
(*   between v and v+1), str (a sequence of one-character strings),        *)
(*   arr (a sequence of values), obj (a record of own properties).         *)
(* A thrown exception is the value Threw.                                  *)
(***************************************************************************)
EXTENDS Integers, Sequences, FiniteSets, TLC

\* ------------------------------------------------------------------------
\* JavaScript value model
\* ------------------------------------------------------------------------

JUndef == [t |-> "undef", v |-> 0]

JNull == [t |-> "null", v |-> 0]

JBool(b) == [t |-> "bool", v |-> b]

JNum(n) == [t |-> "num", v |-> n]

JFrac(n) == [t |-> "frac", v |-> n]

JStr(s) == [t |-> "str", v |-> s]

JArr(s) == [t |-> "arr", v |-> s]

JObj(r) == [t |-> "obj", v |-> r]

Threw == [t |-> "throw", v |-> 0]

IsThrow(x) == x.t = "throw"

\* x == null (loose): true of null and undefined
IsNullish(x) == x.t \in {"undef", "null"}

\* ToBoolean
Truthy(x) ==
  CASE x.t = "undef" -> FALSE
    [] x.t = "null" -> FALSE
    [] x.t = "bool" -> x.v
    [] x.t = "num" -> x.v # 0
    [] x.t = "str" -> Len(x.v) > 0
    [] OTHER -> TRUE

\* typeof x === 'object'
TypeofObject(x) == x.t \in {"obj", "arr", "null"}

\* property read x?.[k] / x[k] of a JSON value (own data properties only)
Get(x, k) == IF x.t = "obj" /\ k \in DOMAIN x.v THEN x.v[k] ELSE JUndef

\* a ?? b
Coalesce(a, b) == IF IsNullish(a) THEN b ELSE a

\* a || b
OrElse(a, b) == IF Truthy(a) THEN a ELSE b

\* Number.isInteger
NumberIsInteger(x) == x.t = "num"

\* Number.isFinite
NumberIsFinite(x) == x.t \in {"num", "frac"}

Digits == <<"0", "1", "2", "3", "4", "5", "6", "7", "8", "9">>

IsDigit(c) == \E i \in 1..10 : Digits[i] = c

DigitVal(c) == (CHOOSE i \in 1..10 : Digits[i] = c) - 1

IsSpace(c) == c = " "

RECURSIVE DigitsToNat(_)
\* base-10 value of a sequence of digit characters
DigitsToNat(s) ==
  IF Len(s) = 0 THEN 0
  ELSE 10 * DigitsToNat(SubSeq(s, 1, Len(s) - 1)) + DigitVal(s[Len(s)])

RECURSIVE NatToDigits(_)
NatToDigits(n) ==
  IF n < 10 THEN <<Digits[n + 1]>>
  ELSE Append(NatToDigits(n \div 10), Digits[(n % 10) + 1])

RECURSIVE TrimStart(_)
TrimStart(s) ==
  IF Len(s) > 0 /\ IsSpace(s[1]) THEN TrimStart(Tail(s)) ELSE s

RECURSIVE TrimEnd(_)
TrimEnd(s) ==
  IF Len(s) > 0 /\ IsSpace(s[Len(s)]) THEN TrimEnd(SubSeq(s, 1, Len(s) - 1)) ELSE s

\* String.prototype.trim
Trim(s) == TrimEnd(TrimStart(s))

RECURSIVE DigitPrefix(_)
\* the longest prefix of s made of digits
DigitPrefix(s) ==
  IF Len(s) > 0 /\ IsDigit(s[1]) THEN <<s[1]>> \o DigitPrefix(Tail(s)) ELSE <<>>

RECURSIVE JoinComma(_)
JoinComma(parts) ==
  IF Len(parts) = 0 THEN <<>>
  ELSE IF Len(parts) = 1 THEN parts[1]
  ELSE parts[1] \o <<",">> \o JoinComma(Tail(parts))

RECURSIVE ToStringJs(_)
\* ToString(x): a JStr, or Threw when ToPrimitive finds no callable
\* toString/valueOf yielding a primitive (an object with an own, hence
\* non-callable, "toString" property).
ToStringJs(x) ==
  CASE x.t = "str" -> x
    [] x.t = "num" ->
         JStr(IF x.v < 0 THEN <<"-">> \o NatToDigits(-x.v) ELSE NatToDigits(x.v))
    [] x.t = "frac" ->
         JStr((IF x.v < 0 THEN <<"-">> \o NatToDigits(-(x.v + 1)) ELSE NatToDigits(x.v))
              \o <<".", "5">>)
    [] x.t = "undef" -> JStr(<<"u", "n", "d", "e", "f", "i", "n", "e", "d">>)
    [] x.t = "null" -> JStr(<<"n", "u", "l", "l">>)
    [] x.t = "bool" ->
         JStr(IF x.v THEN <<"t", "r", "u", "e">> ELSE <<"f", "a", "l", "s", "e">>)
    [] x.t = "arr" ->
         LET parts == [i \in 1..Len(x.v) |->
                         IF IsNullish(x.v[i]) THEN JStr(<<>>) ELSE ToStringJs(x.v[i])]
         IN IF \E i \in 1..Len(x.v) : IsThrow(parts[i]) THEN Threw
            ELSE JStr(JoinComma([i \in 1..Len(x.v) |-> parts[i].v]))
    [] x.t = "obj" ->
         IF "toString" \in DOMAIN x.v THEN Threw
         ELSE JStr(<<"[", "o", "b", "j", "e", "c", "t", " ", "O", "b", "j", "e", "c", "t", "]">>)
    [] OTHER -> Threw

\* NaN
JNaN == [t |-> "nan", v |-> 0]

\* the digits read by parseInt, with the sign found before them
ParseIntDigits(ds, sign) ==
  IF Len(ds) = 0 THEN JNaN ELSE JNum(sign * DigitsToNat(ds))

\* parseInt on a string whose leading white space is stripped
ParseIntSigned(s) ==
  IF Len(s) > 0 /\ s[1] = "-" THEN ParseIntDigits(DigitPrefix(Tail(s)), -1)
  ELSE IF Len(s) > 0 /\ s[1] = "+" THEN ParseIntDigits(DigitPrefix(Tail(s)), 1)
  ELSE ParseIntDigits(DigitPrefix(s), 1)

ParseIntOfString(str) ==
  IF IsThrow(str) THEN Threw ELSE ParseIntSigned(TrimStart(str.v))

\* Number.parseInt(value, 10)
NumberParseInt(value) == ParseIntOfString(ToStringJs(value))

Max(a, b) == IF a > b THEN a ELSE b

Min(a, b) == IF a < b THEN a ELSE b

\* ------------------------------------------------------------------------
\* src/lib/fortuneScores.js
\* Each function is a chain of operators, one per statement, the values
\* computed so far passed on as parameters.
\* ------------------------------------------------------------------------

SCORE_KEYS == {"total", "love", "study", "money", "health"}

CategoryKeys == <<"love", "study", "money", "health">>

\* mutant of clampParsed: the parsed number is returned unclamped
clampParsedUnclamped(parsed, fallback) ==
  IF IsThrow(parsed) THEN Threw
  ELSE IF ~NumberIsFinite(parsed) THEN fallback
  ELSE parsed

\* clampScore, from the parsed value on (lines 5-6)
clampParsed(parsed, fallback) ==
  IF IsThrow(parsed) THEN Threw
  ELSE IF ~NumberIsFinite(parsed) THEN fallback
  ELSE JNum(Max(0, Min(100, parsed.v)))

clampScore(value, fallback) == clampParsed(NumberParseInt(value), fallback)

\* Math.round of sum / n for sum >= 0, n > 0 (ties toward +Infinity)
MathRoundDiv(sum, n) == (2 * sum + n) \div (2 * n)

RECURSIVE SumValues(_)
\* reduce((acc, value) => acc + value, 0) over Number values
SumValues(s) == IF Len(s) = 0 THEN 0 ELSE s[1].v + SumValues(Tail(s))

\* line 34 and the return
scoresDefaultTotal(next, total) ==
  IF IsThrow(total) THEN Threw
  ELSE JObj([next EXCEPT !["total"] = IF IsNullish(total) THEN JNum(50) ELSE total])

\* lines 28-31, categoryAverage being the finite category scores
scoresAverage(next, categoryAverage) ==
  IF Len(categoryAverage) > 0
  THEN scoresDefaultTotal(next,
         clampScore(JNum(MathRoundDiv(SumValues(categoryAverage), Len(categoryAverage))),
                    JNum(50)))
  ELSE scoresDefaultTotal(next, JNull)

\* lines 24-27, total being next.total after line 22
scoresFallback(next, total) ==
  IF IsNullish(total)
  THEN scoresAverage(next, SelectSeq([i \in 1..4 |-> next[CategoryKeys[i]]], NumberIsFinite))
  ELSE scoresDefaultTotal(next, total)

\* line 22, after normalizedTotal (line 15) and the per-key clamps (lines 17-20)
scoresWithTotal(normalizedTotal, next) ==
  IF IsThrow(normalizedTotal) \/ \E k \in SCORE_KEYS : IsThrow(next[k]) THEN Threw
  ELSE scoresFallback(next, Coalesce(normalizedTotal, next["total"]))

\* mutant of isNotScoresObject: a missing or non-object scores is normalized
\* like an empty object
isNotScoresObjectNever(scores) == FALSE

\* !scores || typeof scores !== 'object'
isNotScoresObject(scores) == ~Truthy(scores) \/ ~TypeofObject(scores)

normalizeOhaasaScores(scores) ==
  IF isNotScoresObject(scores) THEN JNull
  ELSE scoresWithTotal(
         clampScore(Coalesce(Get(scores, "total"), Get(scores, "overall")), JNull),
         [k \in SCORE_KEYS |-> clampScore(Get(scores, k), JNull)])

\* ------------------------------------------------------------------------
\* src/lib/fortuneEngine.js : ranking normalizer
\* A str is a sequence of tokens: a token is one character, or an
\* indivisible run of characters that are neither digits nor spaces
\* (for instance the tokens "sang" and "seung" spell the status word 상승).
\* ------------------------------------------------------------------------

S_ok == <<"ok">>

S_partial == <<"partial">>

S_error == <<"error">>

S_asahi == <<"asahi_ohaasa">>

\* status tags 상승 / 하락 / 안정
T_up == <<"sang", "seung">>

T_down == <<"ha", "rak">>

T_stable == <<"an", "jeong">>

SignKeys ==
  {"jp_ohitsuji", "jp_oushi", "jp_futago", "jp_kani", "jp_shishi", "jp_otome",
   "jp_tenbin", "jp_sasori", "jp_ite", "jp_yagi", "jp_mizugame", "jp_uo"}

\* SIGN_KO_BY_KEY: sign_key (one token) -> Korean sign name (one token)
SIGN_KO_BY_KEY ==
  [k \in SignKeys |->
     CASE k = "jp_ohitsuji" -> "yang"
       [] k = "jp_oushi" -> "hwangso"
       [] k = "jp_futago" -> "ssangdungi"
       [] k = "jp_kani" -> "ge"
       [] k = "jp_shishi" -> "saja"
       [] k = "jp_otome" -> "cheonyeo"
       [] k = "jp_tenbin" -> "cheonching"
       [] k = "jp_sasori" -> "jeongal"
       [] k = "jp_ite" -> "sasu"
       [] k = "jp_yagi" -> "yeomso"
       [] k = "jp_mizugame" -> "mulbyeong"
       [] k = "jp_uo" -> "mulgogi"]

\* DATE_RE = /^\d{4}-\d{2}-\d{2}$/
DATE_RE_test(s) ==
  /\ Len(s) = 10
  /\ \A i \in {1, 2, 3, 4, 6, 7, 9, 10} : IsDigit(s[i])
  /\ s[5] = "-"
  /\ s[8] = "-"

\* lines 73-75, digits being every digit character of the string
parseDigits(digits) ==
  IF Len(digits) = 0 THEN JNull ELSE JNum(DigitsToNat(digits))

parseRank(value) ==
  IF NumberIsInteger(value) THEN value
  ELSE IF value.t = "str" THEN parseDigits(SelectSeq(value.v, IsDigit))
  ELSE JNull

StrIncludes(s, c) == \E i \in 1..Len(s) : s[i] = c

\* lines 82-86
statusTagOfText(text) ==
  IF text = T_up \/ text = T_down \/ text = T_stable THEN JStr(text)
  ELSE IF Len(text) = 0 THEN JStr(T_stable)
  ELSE IF StrIncludes(text, "sang") THEN JStr(T_up)
  ELSE IF StrIncludes(text, "ha") THEN JStr(T_down)
  ELSE JStr(T_stable)

normalizeStatusTag(value) ==
  statusTagOfText(IF value.t = "str" THEN Trim(value.v) ELSE <<>>)

\* mutant of pickTone: the bucket bounds are inclusive
pickToneInclusive(score) ==
  IF score <= 40 THEN "low" ELSE IF score <= 70 THEN "mid" ELSE "high"

pickTone(score) ==
  IF score < 40 THEN "low" ELSE IF score < 70 THEN "mid" ELSE "high"

EntryFields ==
  {"rank", "sign_key", "sign_ko", "scores", "status_tag", "trend", "toneLabel",
   "ai", "message_ko", "message_jp"}

AiFields == {"cards", "summary", "lucky_points"}

\* { ...(ranking || {}) } restricted to the properties the engine reads
SpreadEntry(ranking) == [k \in EntryFields |-> Get(OrElse(ranking, JObj(<<>>)), k)]

\* mutant of RankInRange: off by one at the upper end
RankInRangeWide(r) == NumberIsInteger(r) /\ r.v >= 1 /\ r.v <= 13

RankInRange(r) == NumberIsInteger(r) /\ r.v >= 1 /\ r.v <= 12

\* mutant of rankOrNull: the rank is taken as zero-based and shifted by one
rankOrNullShifted(parsedRank) ==
  IF NumberIsInteger(parsedRank) /\ parsedRank.v >= 0 /\ parsedRank.v <= 11
  THEN JNum(parsedRank.v + 1) ELSE JNull

\* line 108
rankOrNull(parsedRank) == IF RankInRange(parsedRank) THEN parsedRank ELSE JNull

\* line 111, from the trimmed text on
signKeyOfText(text) == IF Len(text) > 0 THEN JStr(text) ELSE JNull

\* line 111
signKeyOrNull(raw) == IF raw.t = "str" THEN signKeyOfText(Trim(raw.v)) ELSE JNull

\* lines 114-116
signKoOf(raw_ko, sign_key) ==
  IF ~Truthy(raw_ko) /\ Truthy(sign_key)
  THEN IF Len(sign_key.v) = 1 /\ sign_key.v[1] \in SignKeys
       THEN JStr(<<SIGN_KO_BY_KEY[sign_key.v[1]]>>)
       ELSE JStr(<<>>)
  ELSE raw_ko

\* lines 124-130
safeAi(ai, cards, summary) ==
  JObj([k \in AiFields |->
          CASE k = "cards" -> IF cards.t = "arr" THEN cards ELSE JNull
            [] k = "summary" ->
                 IF Truthy(summary) /\ TypeofObject(summary) THEN summary ELSE JNull
            [] OTHER -> Get(ai, k)])

\* lines 121-131
normalizeAi(ai) ==
  IF ~Truthy(ai) \/ ~TypeofObject(ai) THEN JNull
  ELSE safeAi(ai, Get(ai, "cards"), Get(ai, "summary"))

WarnInvalidRank(index) == <<"invalid rank at index ">> \o NatToDigits(index)

WarnMissingSignKey(index) == <<"missing sign_key at index ">> \o NatToDigits(index)

WarnDuplicateRank(rank) == <<"duplicate rank ">> \o NatToDigits(rank)

WarnInvalidDate == <<"invalid date_kst">>

\* the entry and the warnings returned, the fields being computed
rankingResult(next, index, rank, sign_key, scores) ==
  IF IsThrow(scores) THEN Threw
  ELSE [t |-> "result",
        ranking |-> JObj([k \in EntryFields |->
                            CASE k = "rank" -> rank
                              [] k = "sign_key" -> sign_key
                              [] k = "sign_ko" -> signKoOf(next["sign_ko"], sign_key)
                              [] k = "scores" -> scores
                              [] k = "status_tag" ->
                                   normalizeStatusTag(
                                     Coalesce(Coalesce(next["status_tag"], next["trend"]),
                                              next["toneLabel"]))
                              [] k = "ai" -> normalizeAi(next["ai"])
                              [] OTHER -> next[k]]),
        warnings |-> (IF IsNullish(rank) THEN <<WarnInvalidRank(index)>> ELSE <<>>)
                       \o (IF ~Truthy(sign_key) THEN <<WarnMissingSignKey(index)>> ELSE <<>>)]

\* normalizeRanking from the copied entry on (lines 107-133)
normalizeNext(next, index) ==
  rankingResult(next, index, rankOrNull(parseRank(next["rank"])),
                signKeyOrNull(next["sign_key"]), normalizeOhaasaScores(next["scores"]))

\* normalizeRanking(ranking, index):
\* [t |-> "result", ranking |-> obj, warnings |-> seq], or Threw
normalizeRanking(ranking, index) == normalizeNext(SpreadEntry(ranking), index)

RECURSIVE InsertByRankUnstable(_, _)
\* mutant of InsertByRank: an unstable sort, equal ranks change places
InsertByRankUnstable(sorted, x) ==
  IF Len(sorted) = 0 THEN <<x>>
  ELSE IF sorted[Len(sorted)].v["rank"].v - x.v["rank"].v < 0 THEN Append(sorted, x)
  ELSE Append(InsertByRankUnstable(SubSeq(sorted, 1, Len(sorted) - 1), x), sorted[Len(sorted)])

RECURSIVE InsertByRank(_, _)
\* one step of a stable insertion: x goes after every element whose rank is
\* not greater (Array.prototype.sort is stable)
InsertByRank(sorted, x) ==
  IF Len(sorted) = 0 THEN <<x>>
  ELSE IF sorted[Len(sorted)].v["rank"].v - x.v["rank"].v <= 0 THEN Append(sorted, x)
  ELSE Append(InsertByRank(SubSeq(sorted, 1, Len(sorted) - 1), x), sorted[Len(sorted)])

\* mutant of SortByRank: the sort is left out
SortByRankNone(s) == s

RECURSIVE SortByRank(_)
\* rankings.sort((a, b) => a.rank - b.rank)
SortByRank(s) ==
  IF Len(s) = 0 THEN <<>>
  ELSE InsertByRank(SortByRank(SubSeq(s, 1, Len(s) - 1)), s[Len(s)])

RECURSIVE Dedupe(_, _, _, _)
\* the forEach over the sorted rankings s, from deduped, seenRanks and the
\* duplicate warnings so far: [deduped, warnings]
Dedupe(s, deduped, seenRanks, warnings) ==
  IF Len(s) = 0 THEN [deduped |-> deduped, warnings |-> warnings]
  ELSE IF s[1].v["rank"].v \in seenRanks
       THEN Dedupe(Tail(s), deduped, seenRanks,
                   Append(warnings, WarnDuplicateRank(s[1].v["rank"].v)))
       ELSE Dedupe(Tail(s), Append(deduped, s[1]), seenRanks \cup {s[1].v["rank"].v}, warnings)

\* mutant of nextStatus: no escalation
nextStatusNoEscalation(warnings, status) == OrElse(status, JStr(S_ok))

\* warnings.length > 0 && data?.status === 'ok' ? 'partial' : data?.status || 'ok'
nextStatus(warnings, status) ==
  IF Len(warnings) > 0 /\ status = JStr(S_ok) THEN JStr(S_partial)
  ELSE OrElse(status, JStr(S_ok))

RECURSIVE Flatten(_)
Flatten(ss) == IF Len(ss) = 0 THEN <<>> ELSE ss[1] \o Flatten(Tail(ss))

\* mutant of KeepValidRank: rank 12 is filtered out as well
KeepValidRankBelowTwelve(item) ==
  RankInRange(item.v["rank"]) /\ item.v["rank"] # JNum(12)

KeepValidRank(item) == RankInRange(item.v["rank"])

\* mutant of dateCandidateOf: the date_kst is not trimmed
dateCandidateOfUntrimmed(rawDate) == IF rawDate.t = "str" THEN rawDate.v ELSE <<>>

\* lines 139: the trimmed date_kst, '' when it is no string
dateCandidateOf(rawDate) == IF rawDate.t = "str" THEN Trim(rawDate.v) ELSE <<>>

\* line 143
inputRankingsOf(rawRankings) == IF rawRankings.t = "arr" THEN rawRankings.v ELSE <<>>

\* line 144
normalizeAll(inputRankings) ==
  [i \in 1..Len(inputRankings) |-> normalizeRanking(inputRankings[i], i - 1)]

\* lines 163-174
rankingSet(data, date_kst, deduped, warnings) ==
  JObj([source |-> OrElse(Get(data, "source"), JStr(S_asahi)),
        date_kst |-> JStr(date_kst),
        updated_at_kst |-> OrElse(Get(data, "updated_at_kst"), JNull),
        status |-> nextStatus(warnings, Get(data, "status")),
        error_message |-> OrElse(Get(data, "error_message"), JStr(<<>>)),
        rankings |-> JArr(deduped),
        warnings |-> warnings])

\* lines 152-161, the warnings so far being those of the date and the items
dedupeAndReturn(data, date_kst, dd) == rankingSet(data, date_kst, dd.deduped, dd.warnings)

\* lines 145-150, normalized being the per-item results
sortAndDedupe(data, date_kst, dateWarnings, normalized) ==
  IF \E i \in 1..Len(normalized) : IsThrow(normalized[i]) THEN Threw
  ELSE dedupeAndReturn(data, date_kst,
         Dedupe(SortByRank(SelectSeq([i \in 1..Len(normalized) |-> normalized[i].ranking],
                                     KeepValidRank)),
                <<>>, {},
                dateWarnings \o Flatten([i \in 1..Len(normalized) |-> normalized[i].warnings])))

\* lines 140-144
normalizeWithDate(data, dateCandidate, fallbackDate) ==
  sortAndDedupe(data,
                IF DATE_RE_test(dateCandidate) THEN dateCandidate ELSE fallbackDate,
                IF (IF DATE_RE_test(dateCandidate) THEN dateCandidate ELSE fallbackDate)
                     # dateCandidate
                THEN <<WarnInvalidDate>> ELSE <<>>,
                normalizeAll(inputRankingsOf(Get(data, "rankings"))))

\* normalizeFortuneJson(data), with getTodayKstString() returning fallbackDate
normalizeFortuneJson(data, fallbackDate) ==
  normalizeWithDate(data, dateCandidateOf(Get(data, "date_kst")), fallbackDate)

\* ------------------------------------------------------------------------
\* seedRandom (src/lib/fortuneEngine.js lines 733-759)
\* A 32-bit word is the pair <<hi, lo>> of its 16-bit halves, so that no
\* intermediate value leaves the range of the model checker's integers.
\* ------------------------------------------------------------------------

Half == 65536

RECURSIVE Xor16(_, _)
\* bitwise exclusive or of two numbers below 2^16
Xor16(a, b) ==
  IF a = 0 THEN b
  ELSE IF b = 0 THEN a
  ELSE ((a + b) % 2) + 2 * Xor16(a \div 2, b \div 2)

RECURSIVE Or16(_, _)
\* bitwise or of two numbers below 2^16
Or16(a, b) ==
  IF a = 0 THEN b
  ELSE IF b = 0 THEN a
  ELSE (IF a % 2 = 1 \/ b % 2 = 1 THEN 1 ELSE 0) + 2 * Or16(a \div 2, b \div 2)

\* a ^ b
Xor32(a, b) == <<Xor16(a[1], b[1]), Xor16(a[2], b[2])>>

\* a | m for a mask m below 2^16
OrLow(a, m) == <<a[1], Or16(a[2], m)>>

\* a >>> k for 0 < k < 16, pow being 2^k
ShiftRight(a, pow) == <<a[1] \div pow, (a[1] % pow) * (Half \div pow) + (a[2] \div pow)>>

\* (a + b) mod 2^32
Add32(a, b) ==
  <<(a[1] + b[1] + ((a[2] + b[2]) \div Half)) % Half, (a[2] + b[2]) % Half>>

\* (x * y) mod 2^16 for x, y below 2^16
MulLow16(x, y) == (((x * (y \div 256)) % 256) * 256 + x * (y % 256)) % Half

\* x * y for x, y below 2^16, as a 32-bit word
MulWide16(x, y) ==
  Add32(<<(x \div 256) * (y \div 256), (x % 256) * (y % 256)>>,
        <<((x \div 256) * (y % 256) + (x % 256) * (y \div 256)) \div 256,
          (((x \div 256) * (y % 256) + (x % 256) * (y \div 256)) % 256) * 256>>)

\* Math.imul(a, b): the low 32 bits of the product
Imul(a, b) ==
  Add32(MulWide16(a[2], b[2]),
        <<(MulLow16(a[1], b[2]) + MulLow16(a[2], b[1])) % Half, 0>>)

\* charCodeAt of the characters a seed string is made of
CharCode(c) ==
  CASE IsDigit(c) -> 48 + DigitVal(c)
    [] c = "-" -> 45
    [] c = "|" -> 124
    [] c = "a" -> 97
    [] c = "h" -> 104
    [] c = "o" -> 111
    [] c = "s" -> 115
    [] c = "v" -> 118
    [] c = " " -> 32

\* 2166136261, 16777619 and 0x6d2b79f5 as words
FnvOffset == <<33052, 40389>>

FnvPrime == <<256, 403>>

Mulberry32Increment == <<27947, 31221>>

RECURSIVE stringHashFrom(_, _)
\* the loop of stringHash over the characters left, h being the hash so far
\* (the test on h only makes the checker compute h before it goes on)
stringHashFrom(str, h) ==
  IF h[1] < 0 \/ Len(str) = 0 THEN h
  ELSE stringHashFrom(Tail(str), Imul(Xor32(h, <<0, CharCode(str[1])>>), FnvPrime))

stringHash(str) == stringHashFrom(str, FnvOffset)

\* line 747, t being the value after line 746
mulberryOut(t) == Xor32(t, ShiftRight(t, 16384))

\* line 746, t being the value after line 745
mulberryMix2(t) ==
  mulberryOut(Xor32(t, Add32(t, Imul(Xor32(t, ShiftRight(t, 128)), OrLow(t, 61)))))

\* line 745, t being the incremented seed
mulberryMix1(t) == mulberryMix2(Imul(Xor32(t, ShiftRight(t, 32768)), OrLow(t, 1)))

\* the seed after `seed += 0x6d2b79f5`, read as a 32-bit word
mulberryStep(seed) == Add32(seed, Mulberry32Increment)

\* one call of random(): the word w whose value / 4294967296 is returned,
\* given the seed already incremented
mulberry32(seed) == mulberryMix1(seed)

\* Math.floor(u * n) for u = w / 4294967296 and 0 < n < 2^15
FloorScaled(w, n) == (w[1] * n + ((w[2] * n) \div Half)) \div Half

\* rng.nextInt(min, max) on the word drawn
nextInt(w, min, max) == FloorScaled(w, max - min + 1) + min

\* rng.pick(list) on the word drawn
pick(w, list) == list[FloorScaled(w, Len(list)) + 1]

\* mutant of createSeededRandom: the generator is a module-level singleton,
\* seeded by the first call only
createSeededRandomShared(seedString, shared) ==
  IF shared = <<>> THEN stringHash(seedString) ELSE shared

\* createSeededRandom(seedString): the seed of a fresh generator; `shared`,
\* the seed a previous call left behind, is not read
createSeededRandom(seedString, shared) == stringHash(seedString)

\* ------------------------------------------------------------------------
\* zodiacWestern (src/unnamed/part_003) and src/lib/zodiacChinese.js
\* ------------------------------------------------------------------------

RECURSIVE SplitDash(_, _, _)
\* String.prototype.split('-'): parts closed so far, the part being read
SplitDash(s, parts, cur) ==
  IF Len(s) = 0 THEN Append(parts, cur)
  ELSE IF s[1] = "-" THEN SplitDash(Tail(s), Append(parts, cur), <<>>)
  ELSE SplitDash(Tail(s), parts, Append(cur, s[1]))

\* a part of the split; a missing one reads undefined and prints "undefined"
PartOrUndefined(parts, i) ==
  IF i <= Len(parts) THEN parts[i] ELSE <<"u", "n", "d", "e", "f", "i", "n", "e", "d">>

RECURSIVE RemoveFirstDash(_)
\* mmdd.replace('-', '')
RemoveFirstDash(s) ==
  IF Len(s) = 0 THEN <<>>
  ELSE IF s[1] = "-" THEN Tail(s)
  ELSE <<s[1]>> \o RemoveFirstDash(Tail(s))

\* toDayValue(mmdd): a JNum or JNaN
toDayValue(mmdd) == ParseIntOfString(JStr(RemoveFirstDash(mmdd)))

ranges ==
  << [name |-> "yeomso",     start |-> <<"1", "2", "-", "2", "2">>, end |-> <<"0", "1", "-", "1", "9">>],
     [name |-> "mulbyeong",  start |-> <<"0", "1", "-", "2", "0">>, end |-> <<"0", "2", "-", "1", "8">>],
     [name |-> "mulgogi",    start |-> <<"0", "2", "-", "1", "9">>, end |-> <<"0", "3", "-", "2", "0">>],
     [name |-> "yang",       start |-> <<"0", "3", "-", "2", "1">>, end |-> <<"0", "4", "-", "1", "9">>],
     [name |-> "hwangso",    start |-> <<"0", "4", "-", "2", "0">>, end |-> <<"0", "5", "-", "2", "0">>],
     [name |-> "ssangdungi", start |-> <<"0", "5", "-", "2", "1">>, end |-> <<"0", "6", "-", "2", "1">>],
     [name |-> "ge",         start |-> <<"0", "6", "-", "2", "2">>, end |-> <<"0", "7", "-", "2", "2">>],
     [name |-> "saja",       start |-> <<"0", "7", "-", "2", "3">>, end |-> <<"0", "8", "-", "2", "2">>],
     [name |-> "cheonyeo",   start |-> <<"0", "8", "-", "2", "3">>, end |-> <<"0", "9", "-", "2", "3">>],
     [name |-> "cheonching", start |-> <<"0", "9", "-", "2", "4">>, end |-> <<"1", "0", "-", "2", "2">>],
     [name |-> "jeongal",    start |-> <<"1", "0", "-", "2", "3">>, end |-> <<"1", "1", "-", "2", "2">>],
     [name |-> "sasu",       start |-> <<"1", "1", "-", "2", "3">>, end |-> <<"1", "2", "-", "2", "1">>] >>

\* mutant of rangeMatches: the wraparound range is tested like the others
rangeMatchesNoWrap(value, startVal, endVal) ==
  IF value.t # "num" THEN FALSE
  ELSE value.v >= startVal.v /\ value.v <= endVal.v

\* the predicate of ranges.find, on the three day values (NaN compares false)
rangeMatches(value, startVal, endVal) ==
  IF value.t # "num" THEN FALSE
  ELSE IF startVal.v > endVal.v THEN value.v >= startVal.v \/ value.v <= endVal.v
  ELSE value.v >= startVal.v /\ value.v <= endVal.v

\* ranges.find(...) and the return, value being the birthdate's day value
zodiacOfValue(value) ==
  IF \E i \in 1..Len(ranges) :
       rangeMatches(value, toDayValue(ranges[i].start), toDayValue(ranges[i].end))
  THEN JStr(<<ranges[CHOOSE i \in 1..Len(ranges) :
                 /\ rangeMatches(value, toDayValue(ranges[i].start), toDayValue(ranges[i].end))
                 /\ \A j \in 1..(i - 1) :
                      ~rangeMatches(value, toDayValue(ranges[j].start), toDayValue(ranges[j].end))
              ].name>>)
  ELSE JStr(<<>>)

\* lines 20-21, parts being birthdate.split('-')
zodiacOfParts(parts) ==
  zodiacOfValue(toDayValue(PartOrUndefined(parts, 2) \o <<"-">> \o PartOrUndefined(parts, 3)))

getWesternZodiac(birthdate) ==
  IF Len(birthdate) = 0 THEN JStr(<<>>) ELSE zodiacOfParts(SplitDash(birthdate, <<>>, <<>>))

animals ==
  <<"jwi", "so", "horangi", "tokki", "yong", "baem", "mal", "yang_tti", "wonsungi",
    "dak", "gae", "dwaeji">>

\* the % operator: the sign of the result is that of the dividend
JsRemainder(a, n) == IF a >= 0 THEN a % n ELSE -((-a) % n)

\* Number(text) of the first part of the split: digits only, '' is 0
NumberOfText(text) ==
  IF \A i \in 1..Len(text) : IsDigit(text[i]) THEN JNum(DigitsToNat(text)) ELSE JNaN

\* lines 6-7 of zodiacChinese.js, year being the Number read
animalOfYear(year) ==
  IF year.t = "num" /\ JsRemainder(year.v - 4, 12) >= 0
  THEN JStr(<<animals[JsRemainder(year.v - 4, 12) + 1]>>)
  ELSE JUndef

getChineseZodiac(birthdate) ==
  IF Len(birthdate) = 0 THEN JStr(<<>>)
  ELSE animalOfYear(NumberOfText(SplitDash(birthdate, <<>>, <<>>)[1]))

\* ------------------------------------------------------------------------
\* src/lib/fortuneEngine.js : generateFortune
\* A generator is the word `a` of mulberry32's closure; a draw steps it and
\* mixes the stepped word.
\* ------------------------------------------------------------------------

CATEGORY_LABELS ==
  [k \in SCORE_KEYS |->
     CASE k = "total" -> "chongun"
       [] k = "love" -> "yeonaeun"
       [] k = "study" -> "hageobun"
       [] k = "money" -> "geumjeonun"
       [] k = "health" -> "geongangun"]

Tones == {"low", "mid", "high"}

FALLBACK_TEXT ==
  [tone \in Tones |->
     CASE tone = "low" ->
            [title |-> JStr(<<"low_title">>), body |-> JStr(<<"low_body">>),
             tip |-> JStr(<<"low_tip">>), warning |-> JStr(<<"low_warning">>)]
       [] tone = "mid" ->
            [title |-> JStr(<<"mid_title">>), body |-> JStr(<<"mid_body">>),
             tip |-> JStr(<<"mid_tip">>), warning |-> JStr(<<"mid_warning">>)]
       [] tone = "high" ->
            [title |-> JStr(<<"high_title">>), body |-> JStr(<<"high_body">>),
             tip |-> JStr(<<"high_tip">>), warning |-> JStr(<<"high_warning">>)]]

FALLBACK_LUCKY_COLORS ==
  << [name |-> JStr(<<"neon_violet">>), value |-> JStr(<<"#8B7BFF">>)],
     [name |-> JStr(<<"cobalt_blue">>), value |-> JStr(<<"#5AA7FF">>)],
     [name |-> JStr(<<"cosmic_pink">>), value |-> JStr(<<"#FF7BD8">>)],
     [name |-> JStr(<<"emerald_green">>), value |-> JStr(<<"#6DE5AE">>)],
     [name |-> JStr(<<"sand_gold">>), value |-> JStr(<<"#D8B56E">>)],
     [name |-> JStr(<<"lapis_navy">>), value |-> JStr(<<"#1F2B6F">>)] >>

FALLBACK_ITEMS ==
  <<JStr(<<"memo_pad">>), JStr(<<"tumbler">>), JStr(<<"pouch">>), JStr(<<"card_wallet">>)>>

FALLBACK_KEYWORDS ==
  <<JStr(<<"jipjung">>), JStr(<<"gyunhyeong">>), JStr(<<"hoebok">>), JStr(<<"jeongni">>)>>

\* the tone label 주의
T_caution == <<"ju", "ui">>

\* the summary used when the entry has no text of its own
GenericSummary == JStr(<<"generic_summary">>)

\* ToNumber(x) as the relational operators apply it
ToNumberOfString(str) ==
  IF IsThrow(str) THEN Threw ELSE NumberOfText(Trim(str.v))

ToNumber(x) ==
  CASE x.t \in {"num", "frac"} -> x
    [] x.t = "null" -> JNum(0)
    [] x.t = "bool" -> JNum(IF x.v THEN 1 ELSE 0)
    [] x.t = "undef" -> JNaN
    [] OTHER -> ToNumberOfString(ToStringJs(x))

\* n >= k and n <= k for an integer k; a frac n is n.v + 0.5
AtLeast(n, k) == n.t \in {"num", "frac"} /\ n.v >= k

AtMost(n, k) == (n.t = "num" /\ n.v <= k) \/ (n.t = "frac" /\ n.v < k)

RangeOf(min, max) == JObj([min |-> JNum(min), max |-> JNum(max)])

\* getOverallRangeByRank, rank converted to a number
rangeOfNumber(n) ==
  IF IsThrow(n) THEN Threw
  ELSE IF AtLeast(n, 1) /\ AtMost(n, 3) THEN RangeOf(85, 100)
  ELSE IF AtLeast(n, 4) /\ AtMost(n, 6) THEN RangeOf(65, 85)
  ELSE IF AtLeast(n, 7) /\ AtMost(n, 9) THEN RangeOf(45, 65)
  ELSE IF AtLeast(n, 10) /\ AtMost(n, 12) THEN RangeOf(20, 45)
  ELSE JNull

\* mutant of getOverallRangeByRank: no rank has a range
getOverallRangeByRankNone(rank) == JNull

getOverallRangeByRank(rank) == rangeOfNumber(ToNumber(rank))

toneLabelOf(tone) ==
  IF tone = "low" THEN JStr(T_caution)
  ELSE IF tone = "mid" THEN JStr(T_stable)
  ELSE JStr(T_up)

\* createFallbackCard from the tone on
fallbackCardOfTone(key, score, tone) ==
  [t |-> "card", key |-> key, name |-> CATEGORY_LABELS[key], score |-> score,
   tone |-> tone, toneLabel |-> toneLabelOf(tone),
   headline |-> FALLBACK_TEXT[tone].title, detail |-> FALLBACK_TEXT[tone].body,
   tip |-> FALLBACK_TEXT[tone].tip, caution |-> FALLBACK_TEXT[tone].warning]

createFallbackCard(key, score) == fallbackCardOfTone(key, score, pickTone(score))

AI_CATEGORY_BY_KEY == [k \in SCORE_KEYS |-> k]

RECURSIVE findCard(_, _)
\* aiCards.find((item) => item?.category === expectedCategory)
findCard(aiCards, expectedCategory) ==
  IF Len(aiCards) = 0 THEN JUndef
  ELSE IF Get(aiCards[1], "category").t = "str"
          /\ Get(aiCards[1], "category").v = <<expectedCategory>>
       THEN aiCards[1]
  ELSE findCard(Tail(aiCards), expectedCategory)

\* createCardFromAi from the card found on (lines 204-215)
cardFromAi(key, score, card, statusTag) ==
  IF ~Truthy(card) THEN JNull
  ELSE [t |-> "card", key |-> key, name |-> CATEGORY_LABELS[key], score |-> score,
        tone |-> pickTone(score), toneLabel |-> OrElse(statusTag, JStr(T_stable)),
        headline |-> OrElse(OrElse(Get(card, "vibe"), Get(card, "headline")),
                            Get(card, "title")),
        detail |-> Get(card, "detail"), tip |-> Get(card, "tip"),
        caution |-> Get(card, "warning")]

createCardFromAi(key, score, aiCards, statusTag) ==
  cardFromAi(key, score,
             IF aiCards.t = "arr" THEN findCard(aiCards.v, AI_CATEGORY_BY_KEY[key])
             ELSE JNull,
             statusTag)

\* rng.nextInt(min, max): the number drawn and the generator after the draw
drawInt(rng, min, max) ==
  [score |-> nextInt(mulberry32(mulberryStep(rng)), min, max), rng |-> mulberryStep(rng)]

\* scoreFor(key) (lines 227-231): the score and the generator after it
scoreFor(key, normalizedScores, totalRange, rng) ==
  IF NumberIsFinite(Get(normalizedScores, key))
  THEN [score |-> Get(normalizedScores, key).v, rng |-> rng]
  ELSE IF key = "total" /\ Truthy(totalRange)
       THEN drawInt(rng, Get(totalRange, "min").v, Get(totalRange, "max").v)
  ELSE drawInt(rng, 25, 98)

\* mutant of cardFor: no fallback card when the entry authored none
cardForAiOnly(key, score, normalizedRanking) ==
  createCardFromAi(key, score,
                   OrElse(Get(Get(normalizedRanking, "ai"), "cards"), JNull),
                   Get(normalizedRanking, "status_tag"))

\* line 236, aiCards being line 233
cardFor(key, score, normalizedRanking) ==
  OrElse(createCardFromAi(key, score,
                          OrElse(Get(Get(normalizedRanking, "ai"), "cards"), JNull),
                          Get(normalizedRanking, "status_tag")),
         createFallbackCard(key, score))

CardKeys == <<"total", "love", "study", "money", "health">>

RECURSIVE mapFortunes(_, _, _, _, _, _)
RECURSIVE mapNext(_, _, _, _, _, _)
\* lines 234-237: the cards made so far and the generator, key by key
mapFortunes(keys, fortunes, rng, normalizedScores, totalRange, normalizedRanking) ==
  IF Len(keys) = 0 THEN [fortunes |-> fortunes, rng |-> rng]
  ELSE mapNext(keys, fortunes, scoreFor(keys[1], normalizedScores, totalRange, rng),
               normalizedScores, totalRange, normalizedRanking)

\* (the test on the generator only makes the checker compute the draw
\* before it goes on to the next key)
mapNext(keys, fortunes, drawn, normalizedScores, totalRange, normalizedRanking) ==
  IF drawn.rng[1] < 0 THEN [fortunes |-> fortunes, rng |-> drawn.rng]
  ELSE mapFortunes(Tail(keys),
                   Append(fortunes, cardFor(keys[1], drawn.score, normalizedRanking)),
                   drawn.rng, normalizedScores, totalRange, normalizedRanking)

\* lines 241-247, every draw made
luckyBundle(aiLucky, fallbackColor, number, item, keyword, rng) ==
  [lucky |-> [color |-> OrElse(Get(aiLucky, "color_hex"), fallbackColor.value),
              colorName |-> OrElse(Get(aiLucky, "color_name"), fallbackColor.name),
              number |-> number, item |-> item, keyword |-> keyword],
   rng |-> rng]

\* line 246
luckyKeyword(aiLucky, fallbackColor, number, item, rng) ==
  IF Truthy(Get(aiLucky, "keyword"))
  THEN luckyBundle(aiLucky, fallbackColor, number, item, Get(aiLucky, "keyword"), rng)
  ELSE luckyBundle(aiLucky, fallbackColor, number, item,
                   pick(mulberry32(mulberryStep(rng)), FALLBACK_KEYWORDS),
                   mulberryStep(rng))

\* line 245
luckyItem(aiLucky, fallbackColor, number, rng) ==
  IF Truthy(Get(aiLucky, "item"))
  THEN luckyKeyword(aiLucky, fallbackColor, number, Get(aiLucky, "item"), rng)
  ELSE luckyKeyword(aiLucky, fallbackColor, number,
                    pick(mulberry32(mulberryStep(rng)), FALLBACK_ITEMS), mulberryStep(rng))

\* line 244
luckyNumber(aiLucky, fallbackColor, rng) ==
  IF NumberIsInteger(Get(aiLucky, "number"))
  THEN luckyItem(aiLucky, fallbackColor, Get(aiLucky, "number"), rng)
  ELSE luckyItem(aiLucky, fallbackColor,
                 JNum(nextInt(mulberry32(mulberryStep(rng)), 1, 9)), mulberryStep(rng))

\* lines 239-247: the lucky bundle and the generator after its draws
luckyOf(aiLucky, rng) ==
  luckyNumber(aiLucky, pick(mulberry32(mulberryStep(rng)), FALLBACK_LUCKY_COLORS),
              mulberryStep(rng))

RECURSIVE JoinDot(_)
\* parts.join(' · ') over strings
JoinDot(parts) ==
  IF Len(parts) = 0 THEN <<>>
  ELSE IF Len(parts) = 1 THEN parts[1]
  ELSE parts[1] \o <<" ", "middot", " ">> \o JoinDot(Tail(parts))

\* the join of line 251, texts being the ToString of the kept elements
joinTexts(texts) ==
  IF \E i \in 1..Len(texts) : IsThrow(texts[i]) THEN Threw
  ELSE JStr(JoinDot([i \in 1..Len(texts) |-> texts[i].v]))

\* line 251: filter(Boolean), then join
joinKept(kept) == joinTexts([i \in 1..Len(kept) |-> ToStringJs(kept[i])])

\* lines 249-252
summaryOf(normalizedRanking, aiSummary) ==
  IF Truthy(aiSummary)
  THEN joinKept(SelectSeq(<<Get(aiSummary, "one_liner"), Get(aiSummary, "focus"),
                            Get(aiSummary, "title"), Get(aiSummary, "body")>>, Truthy))
  ELSE OrElse(OrElse(Get(normalizedRanking, "message_ko"),
                     Get(normalizedRanking, "message_jp")),
              GenericSummary)

\* what a call that raised leaves: no view, the generator as it stood
Raised(rng) == [view |-> Threw, rng |-> rng]

\* lines 254-264: the view returned and the generator the call leaves behind
fortuneView(birthdate, todayKst, summaryText, fortunes, bundle) ==
  IF IsThrow(summaryText) THEN Raised(bundle.rng)
  ELSE [view |-> [t |-> "view", date |-> todayKst, birthdate |-> birthdate,
                  westernZodiac |-> getWesternZodiac(birthdate),
                  chineseZodiac |-> getChineseZodiac(birthdate),
                  summary |-> summaryText, summaryTip |-> JNull,
                  summaryWarning |-> JNull, fortunes |-> fortunes,
                  lucky |-> bundle.lucky],
        rng |-> bundle.rng]

\* lines 239-252, mapped being the cards and the generator after them
generateAfterCards(birthdate, todayKst, normalizedRanking, mapped) ==
  fortuneView(birthdate, todayKst,
              summaryOf(normalizedRanking, Get(Get(normalizedRanking, "ai"), "summary")),
              mapped.fortunes,
              luckyOf(Get(Get(normalizedRanking, "ai"), "lucky_points"), mapped.rng))

\* lines 227-237
generateWithRange(birthdate, todayKst, normalizedRanking, normalizedScores, totalRange, rng) ==
  IF IsThrow(totalRange) THEN Raised(rng)
  ELSE generateAfterCards(birthdate, todayKst, normalizedRanking,
                          mapFortunes(CardKeys, <<>>, rng, normalizedScores, totalRange,
                                      normalizedRanking))

\* line 225
generateWithScores(birthdate, todayKst, rank, normalizedRanking, normalizedScores, rng) ==
  IF IsThrow(normalizedScores) THEN Raised(rng)
  ELSE generateWithRange(birthdate, todayKst, normalizedRanking, normalizedScores,
                         IF IsNullish(Get(normalizedScores, "total"))
                         THEN getOverallRangeByRank(rank) ELSE JNull,
                         rng)

\* line 224
generateWithRanking(birthdate, todayKst, rank, scores, normalizedRanking, rng) ==
  IF IsThrow(normalizedRanking) THEN Raised(rng)
  ELSE generateWithScores(birthdate, todayKst, rank, normalizedRanking,
                          normalizeOhaasaScores(OrElse(scores, Get(normalizedRanking, "scores"))),
                          rng)

\* normalizeRanking(ranking).ranking
rankingOf(result) == IF IsThrow(result) THEN Threw ELSE result.ranking

\* line 223
generateWithOptions(birthdate, todayKst, rank, scores, ranking, rng) ==
  generateWithRanking(birthdate, todayKst, rank, scores,
                      IF Truthy(ranking) THEN rankingOf(normalizeRanking(ranking, 0))
                      ELSE JNull,
                      rng)

\* `${todayKst}|${birthdate}|ohaasa-v2`
seedOf(todayKst, birthdate) ==
  todayKst \o <<"|">> \o birthdate \o <<"|", "o", "h", "a", "a", "s", "a", "-", "v", "2">>

\* a destructuring default `= null`: taken when the property reads undefined
DefaultNull(x) == IF x.t = "undef" THEN JNull ELSE x

\* generateFortune(birthdate, todayKst, options); previous is the generator
\* the call before left, which createSeededRandom does not consult.
\* Destructuring a null options raises TypeError.
generateFortune(birthdate, todayKst, options, previous) ==
  IF options.t = "null" THEN Raised(previous)
  ELSE generateWithOptions(birthdate, todayKst,
                           DefaultNull(Get(options, "rank")),
                           DefaultNull(Get(options, "scores")),
                           DefaultNull(Get(options, "ranking")),
                           createSeededRandom(seedOf(todayKst, birthdate), previous))

\* ------------------------------------------------------------------------
\* src/pages/Input.jsx : the Result page's birthdate gate
\* ------------------------------------------------------------------------

IsLeapYear(y) == (y % 4 = 0 /\ y % 100 # 0) \/ y % 400 = 0

DaysInMonth(y, m) ==
  IF m = 2 THEN (IF IsLeapYear(y) THEN 29 ELSE 28)
  ELSE IF m \in {4, 6, 9, 11} THEN 30
  ELSE 31

\* !Number.isNaN(new Date(value).getTime()) for a value matching the
\* pattern. A month outside 01..12 or a day outside 01..31 gives an invalid
\* date in every engine. A day 29..31 that the month does not have is an
\* illegal element value, NaN by ECMAScript's Date.parse, but V8 accepts it
\* and rolls over into the next month: rollsOver says which engine runs.
DateParses(y, m, d, rollsOver) ==
  /\ m \in 1..12
  /\ d >= 1
  /\ d <= (IF rollsOver THEN 31 ELSE DaysInMonth(y, m))

RECURSIVE StrLessEq(_, _)
\* a <= b on strings: code unit by code unit
StrLessEq(a, b) ==
  IF Len(a) = 0 THEN TRUE
  ELSE IF Len(b) = 0 THEN FALSE
  ELSE IF CharCode(a[1]) < CharCode(b[1]) THEN TRUE
  ELSE IF CharCode(a[1]) > CharCode(b[1]) THEN FALSE
  ELSE StrLessEq(Tail(a), Tail(b))

\* mutant of isValidBirthdate: today itself is refused (value < today)
isValidBirthdateBeforeToday(value, today, rollsOver) ==
  IF ~DATE_RE_test(value) THEN FALSE
  ELSE IF ~DateParses(DigitsToNat(SubSeq(value, 1, 4)), DigitsToNat(SubSeq(value, 6, 7)),
                      DigitsToNat(SubSeq(value, 9, 10)), rollsOver)
       THEN FALSE
  ELSE StrLessEq(value, today) /\ value # today

\* isValidBirthdate(value, today), value being a string
isValidBirthdate(value, today, rollsOver) ==
  IF ~DATE_RE_test(value) THEN FALSE
  ELSE IF ~DateParses(DigitsToNat(SubSeq(value, 1, 4)), DigitsToNat(SubSeq(value, 6, 7)),
                      DigitsToNat(SubSeq(value, 9, 10)), rollsOver)
       THEN FALSE
  ELSE StrLessEq(value, today)

\* ------------------------------------------------------------------------
\* src/pages/Input.jsx : the Result page's load, from the response body to
\* the options generateFortune is called with
\* ------------------------------------------------------------------------

RECURSIVE findMatch(_, _)
\* payload.rankings?.find((item) => item.sign_ko === westernZodiac)
findMatch(rankings, westernZodiac) ==
  IF Len(rankings) = 0 THEN JUndef
  ELSE IF Get(rankings[1], "sign_ko").t = "str"
          /\ Get(rankings[1], "sign_ko").v = westernZodiac.v
       THEN rankings[1]
  ELSE findMatch(Tail(rankings), westernZodiac)

\* rank, scoreOverrides and ranking as declared (lines 103-105) and as the
\* catch block resets them (lines 117-119)
NullOptions == JObj([rank |-> JNull, scores |-> JNull, ranking |-> JNull])

\* lines 112-114 and the options object of line 122
optionsOfMatch(match) ==
  JObj([rank |-> Coalesce(Get(match, "rank"), JNull),
        scores |-> Coalesce(Get(match, "scores"), JNull),
        ranking |-> OrElse(match, JNull)])

\* lines 109-120, payload being what normalizeFortuneJson returned or raised
optionsOfPayload(payload, birthdate) ==
  IF IsThrow(payload) THEN NullOptions
  ELSE optionsOfMatch(findMatch(Get(payload, "rankings").v, getWesternZodiac(birthdate)))

\* lines 109-120, body being what response.json() resolved to
optionsOfBody(body, birthdate, todayKst) ==
  optionsOfPayload(normalizeFortuneJson(body, todayKst), birthdate)

\* ------------------------------------------------------------------------
\* src/lib/storage.js : the fortune history
\* The item of localStorage is JSON text; it is kept as the value the text
\* parses to (null when there is no item).
\* ------------------------------------------------------------------------

\* localStorage cannot be used: every access raises
Unavailable == [t |-> "unavailable", v |-> 0]

\* a property JSON.stringify leaves out
Dropped == [t |-> "dropped", v |-> 0]

\* JSON.parse(JSON.stringify(...)) of a property value that came from JSON
\* or is a string, a number or undefined: undefined is left out
jsonProperty(x) == IF x.t = "undef" THEN Dropped ELSE x

jsonCard(card) ==
  [card EXCEPT !.headline = jsonProperty(@), !.detail = jsonProperty(@),
               !.tip = jsonProperty(@), !.caution = jsonProperty(@),
               !.toneLabel = jsonProperty(@)]

\* the view as it reads back from the stored text
jsonFortune(fortune) ==
  [fortune EXCEPT !.westernZodiac = jsonProperty(@), !.chineseZodiac = jsonProperty(@),
                  !.summary = jsonProperty(@),
                  !.fortunes = [i \in 1..Len(@) |-> jsonCard(@[i])],
                  !.lucky = [k \in DOMAIN @ |-> jsonProperty(@[k])]]

HistoryCapacity == 5

\* JSON.parse(localStorage.getItem(KEY) || '[]')
existingOf(item) == IF Truthy(item) THEN item.v ELSE <<>>

\* mutant of sliceNext: the new fortune is put last
sliceNextAppended(fortune, existing) ==
  SubSeq(Append(existing, jsonFortune(fortune)), 1, Min(HistoryCapacity, Len(existing) + 1))

\* lines 7-8: [fortune, ...existing].slice(0, 5), stringified
sliceNext(fortune, existing) ==
  SubSeq(<<jsonFortune(fortune)>> \o existing, 1, Min(HistoryCapacity, Len(existing) + 1))

\* saveFortune(fortune): the item afterwards, item being the item before
saveFortune(fortune, item) ==
  IF item.t = "unavailable" THEN item
  ELSE JArr(sliceNext(fortune, existingOf(item)))

\* loadFortunes(): the list returned
loadFortunes(item) ==
  IF item.t = "unavailable" THEN <<>> ELSE existingOf(item)

\* ------------------------------------------------------------------------
\* State: calls of an exported function on one argument record. input is
\* the argument record, output what the last call returned (Threw when it
\* raised), phase is "ready" before the first call and "done" after it,
\* calls counts the calls made, firstOutput is what the first call returned
\* and generator is the generator the last generateFortune call left behind.
\* storage is the history item of localStorage, saved the fortunes passed to
\* saveFortune so far (latest last), page the state of the Result page.
\* ------------------------------------------------------------------------

VARIABLES input, output, phase, calls, firstOutput, generator, storage, saved, page

vars == <<input, output, phase, calls, firstOutput, generator, storage, saved, page>>

\* no Result page is shown
NoPage == [pc |-> "none"]

NoGenerator == <<>>

NoOutput == [t |-> "none", v |-> 0]

\* ------------------------------------------------------------------------
\* Inputs of the normalizer
\* ------------------------------------------------------------------------

MaxEntries == 3

MaxItems == 2

RECURSIVE SeqsUpTo(_, _)
SeqsUpTo(S, n) == IF n = 0 THEN {<<>>} ELSE SeqsUpTo(S, n - 1) \cup [1..n -> S]

\* `${y}-${pad(m)}-${pad(d)}`
pad(n) == IF n < 10 THEN <<"0">> \o NatToDigits(n) ELSE NatToDigits(n)

FormatDate(y, m, d) == NatToDigits(y) \o <<"-">> \o pad(m) \o <<"-">> \o pad(d)

Todays == {FormatDate(2026, 1, 5)}

KeyAries == JStr(<<"jp_ohitsuji">>)

RawRanks ==
  {JUndef, JNum(0), JNum(1), JNum(5), JNum(12), JNum(13), JFrac(5),
   JStr(<<"5", "wi">>), JStr(<<"1", "3">>), JStr(<<"x">>)}

Marker(i) == JStr(<<"m">> \o NatToDigits(i))

\* a payload whose i-th entry has raw rank ranks[i] and carries the marker i
RankPayload(ranks) ==
  JObj([status |-> JStr(S_ok),
        date_kst |-> JStr(FormatDate(2026, 1, 5)),
        rankings |-> JArr([i \in 1..Len(ranks) |->
                             JObj([rank |-> ranks[i], sign_key |-> KeyAries,
                                   message_jp |-> Marker(i)])])])

RankPayloads == {RankPayload(ranks) : ranks \in SeqsUpTo(RawRanks, MaxEntries)}

ShadowedToString == JObj([toString |-> JNum(0)])

RawScoresValues ==
  {JUndef, JNull, JStr(<<"8", "0">>), JObj(<<>>), JArr(<<>>),
   JObj([love |-> JNum(60), study |-> JNum(80)]),
   JObj([total |-> JNum(250), health |-> JStr(<<"-", "5">>)]),
   JObj([total |-> ShadowedToString])}

RawSignKeys == {JUndef, JStr(<<" ", "jp_ohitsuji", " ">>)}

RawEntries ==
  {JObj([rank |-> r, sign_key |-> k]) : r \in {JNum(1), JStr(<<"x">>)}, k \in RawSignKeys}
    \cup {JObj([rank |-> JNum(1), sign_key |-> KeyAries, scores |-> sc]) : sc \in RawScoresValues}
    \cup {JNull, JStr(<<"x">>), JNum(7)}

RawStatuses ==
  {JUndef, JStr(<<>>), JStr(S_ok), JStr(S_partial), JStr(S_error),
   JStr(<<"maintenance">>), JNum(0), JNum(7)}

RawDates ==
  {JUndef, JStr(<<" ">> \o FormatDate(2025, 12, 31)), JStr(<<"2", "0", "2", "6", "-", "1", "-", "5">>)}

RawRankingsValues ==
  {JUndef, JObj(<<>>)} \cup {JArr(items) : items \in SeqsUpTo(RawEntries, MaxItems)}

StatusPayloads ==
  {JObj([status |-> st, date_kst |-> d, rankings |-> rs]) :
     st \in RawStatuses, d \in RawDates, rs \in RawRankingsValues}

OtherPayloads == {JNull, JUndef, JStr(<<"x">>), JNum(7), JArr(<<>>), JObj(<<>>)}

Payloads == RankPayloads \cup StatusPayloads \cup OtherPayloads

InitNorm ==
  /\ input \in {[data |-> p, today |-> td] : p \in Payloads, td \in Todays}
  /\ output = NoOutput
  /\ phase = "ready"
  /\ calls = 0
  /\ firstOutput = NoOutput
  /\ generator = NoGenerator
  /\ storage = JNull
  /\ saved = <<>>
  /\ page = NoPage

Normalize ==
  /\ phase = "ready"
  /\ output' = normalizeFortuneJson(input.data, input.today)
  /\ phase' = "done"
  /\ calls' = calls + 1
  /\ firstOutput' = output'
  /\ UNCHANGED <<input, generator, storage, saved, page>>

NextNorm == Normalize

SpecNorm == InitNorm /\ [][NextNorm]_vars

\* ------------------------------------------------------------------------
\* Inputs of the score normalizer and of the generator
\* ------------------------------------------------------------------------

MaxCalls == 2

Absent == [t |-> "absent", v |-> 0]

\* the object literal with the properties of f that are not Absent
ObjectOf(f) == JObj([k \in {k \in DOMAIN f : f[k] # Absent} |-> f[k]])

RawTotals == {Absent, JNull, JNum(0), JNum(250), JStr(<<"a", "b", "c">>)}

RawOveralls == {Absent, JNum(80), JStr(<<"x">>)}

RawLoves == {Absent, JNum(60), JNum(250), JStr(<<"-", "5">>)}

RawStudies == {Absent, JNum(80), JNum(81), JStr(<<"a", "b", "c">>)}

RawMoneys == {Absent, JNum(33)}

ScoresObjects ==
  {ObjectOf([total |-> t, overall |-> o, love |-> l, study |-> s, money |-> m]) :
     t \in RawTotals, o \in RawOveralls, l \in RawLoves, s \in RawStudies, m \in RawMoneys}

ScoresArguments ==
  ScoresObjects \cup {JUndef, JNull, JNum(80), JStr(<<"8", "0">>), JArr(<<>>),
                      JObj([health |-> JFrac(70)])}

Birthdates == {FormatDate(1990, 12, 22), FormatDate(1996, 1, 19)}

GenTodays == {FormatDate(2026, 1, 5), FormatDate(2026, 1, 6)}

GenRanks ==
  {JUndef, JNull, JNum(0), JNum(1), JNum(3), JNum(4), JNum(6), JNum(7), JNum(9),
   JNum(10), JNum(12), JNum(13), JFrac(3), JStr(<<"5">>)}

GenScores ==
  {JUndef, JObj(<<>>),
   JObj([love |-> JNum(60), study |-> JNum(80)]),
   JObj([total |-> JNum(250), health |-> JStr(<<"-", "5">>)]),
   JObj([total |-> JStr(<<"a", "b", "c">>), overall |-> JNum(80)]),
   JObj([total |-> JNum(0)]),
   JObj([total |-> JNum(39), love |-> JNum(40), study |-> JNum(69), money |-> JNum(70)])}

AiCardTotal ==
  JObj([category |-> JStr(<<"total">>), vibe |-> JStr(<<"ai_vibe">>),
        detail |-> JStr(<<"ai_detail">>), tip |-> JStr(<<"ai_tip">>),
        warning |-> JStr(<<"ai_warning">>)])

AiCardLove == JObj([category |-> JStr(<<"love">>), headline |-> JStr(<<"ai_headline">>)])

\* a card with both vibe and headline, a second card of the same category and
\* a card that carries all four texts under the names the output uses
AiCardVibe ==
  JObj([category |-> JStr(<<"love">>), vibe |-> JStr(<<"ai_vibe">>),
        headline |-> JStr(<<"ai_headline">>), detail |-> JStr(<<"ai_detail">>),
        tip |-> JStr(<<"ai_tip">>), warning |-> JStr(<<"ai_warning">>)])

AiCardSecond ==
  JObj([category |-> JStr(<<"love">>), headline |-> JStr(<<"second_headline">>),
        detail |-> JStr(<<"second_detail">>), tip |-> JStr(<<"second_tip">>),
        warning |-> JStr(<<"second_warning">>)])

AiCardMoney ==
  JObj([category |-> JStr(<<"money">>), headline |-> JStr(<<"ai_headline">>),
        detail |-> JStr(<<"ai_detail">>), tip |-> JStr(<<"ai_tip">>),
        warning |-> JStr(<<"ai_warning">>)])

AiCardStudy ==
  JObj([category |-> JStr(<<"study">>), headline |-> JStr(<<"second_headline">>),
        detail |-> JStr(<<"second_detail">>), tip |-> JStr(<<"second_tip">>),
        warning |-> JStr(<<"second_warning">>)])

AiRepeated ==
  JObj([cards |-> JArr(<<JNull, AiCardMoney, AiCardVibe, AiCardSecond, AiCardStudy,
                         [AiCardStudy EXCEPT !.v.headline = JStr(<<"ai_headline">>)]>>),
        summary |-> JObj([one_liner |-> JStr(<<>>), focus |-> JNull])])

AiFull ==
  JObj([cards |-> JArr(<<AiCardTotal, AiCardLove>>),
        summary |-> JObj([one_liner |-> JStr(<<"ai_one_liner">>), focus |-> JStr(<<>>),
                          body |-> JStr(<<"ai_body">>)]),
        lucky_points |-> JObj([color_hex |-> JStr(<<"#123456">>),
                               color_name |-> JStr(<<"ai_color">>), number |-> JNum(42),
                               item |-> JStr(<<"ai_item">>),
                               keyword |-> JStr(<<"ai_keyword">>)])])

AiPartial ==
  JObj([cards |-> JStr(<<"x">>), summary |-> JObj(<<>>),
        lucky_points |-> JObj([number |-> JFrac(3)])])

GenRankings ==
  {JObj([rank |-> JNum(2), sign_key |-> KeyAries, message_ko |-> JStr(<<"msg_ko">>),
         status_tag |-> JStr(T_up)]),
   JObj([rank |-> JNum(5), sign_key |-> KeyAries, message_jp |-> JStr(<<"msg_jp">>),
         scores |-> JObj([total |-> JNum(77), love |-> JNum(10)])]),
   JObj([rank |-> JNum(11), sign_key |-> KeyAries, status_tag |-> JStr(T_down),
         ai |-> AiFull]),
   JObj([rank |-> JNum(8), sign_key |-> KeyAries, ai |-> AiPartial]),
   JObj([rank |-> JNum(4), sign_key |-> KeyAries, ai |-> AiFull,
         scores |-> JObj([total |-> JNum(69), love |-> JNum(40)])]),
   JObj([rank |-> JNum(7), sign_key |-> KeyAries, message_ko |-> JStr(<<"msg_ko">>),
         ai |-> AiRepeated,
         scores |-> JObj([total |-> JNum(39), love |-> JNum(39), study |-> JNum(40),
                          money |-> JNum(70)])]),
   JObj([rank |-> JNum(1), sign_key |-> KeyAries,
         scores |-> JObj([total |-> ShadowedToString])])}

GenOptions ==
  {JUndef, JNull}
    \cup {ObjectOf([rank |-> r, scores |-> sc]) :
            r \in GenRanks \cup {Absent}, sc \in GenScores \cup {Absent}}
    \cup {ObjectOf([rank |-> r, scores |-> sc, ranking |-> e]) :
            r \in {JNum(3), JNull}, sc \in {Absent, JObj([money |-> JNum(40)])},
            e \in GenRankings}

ScoresInputs == {[fn |-> "normalizeOhaasaScores", scores |-> sc] : sc \in ScoresArguments}

GenerateInputs ==
  {[fn |-> "generateFortune", birthdate |-> b, today |-> td, options |-> opt] :
     b \in Birthdates, td \in GenTodays, opt \in GenOptions}

InitGen ==
  /\ input \in ScoresInputs \cup GenerateInputs
  /\ output = NoOutput
  /\ phase = "ready"
  /\ calls = 0
  /\ firstOutput = NoOutput
  /\ generator = NoGenerator
  /\ storage = JNull
  /\ saved = <<>>
  /\ page = NoPage

NormalizeScores ==
  /\ input.fn = "normalizeOhaasaScores"
  /\ calls < MaxCalls
  /\ output' = normalizeOhaasaScores(input.scores)
  /\ phase' = "done"
  /\ calls' = calls + 1
  /\ firstOutput' = IF calls = 0 THEN output' ELSE firstOutput
  /\ UNCHANGED <<input, generator, storage, saved, page>>

Generate ==
  /\ input.fn = "generateFortune"
  /\ calls < MaxCalls
  /\ \E r \in {generateFortune(input.birthdate, input.today, input.options, generator)} :
       /\ output' = r.view
       /\ generator' = r.rng
  /\ phase' = "done"
  /\ calls' = calls + 1
  /\ firstOutput' = IF calls = 0 THEN output' ELSE firstOutput
  /\ UNCHANGED <<input, storage, saved, page>>

NextGen == NormalizeScores \/ Generate

SpecGen == InitGen /\ [][NextGen]_vars

\* ------------------------------------------------------------------------
\* Inputs of the zodiac functions and of the birthdate gate
\* ------------------------------------------------------------------------

\* a four-digit year
Pad4(y) ==
  IF y < 10 THEN <<"0", "0", "0">> \o NatToDigits(y)
  ELSE IF y < 100 THEN <<"0", "0">> \o NatToDigits(y)
  ELSE IF y < 1000 THEN <<"0">> \o NatToDigits(y)
  ELSE NatToDigits(y)

DateText(y, m, d) == Pad4(y) \o <<"-">> \o pad(m) \o <<"-">> \o pad(d)

MaxEarlyYear == 15

\* every day of a leap year, the first years of the calendar, years a cycle
\* apart, the last year, and texts that name no day
ZodiacBirthdates ==
  {DateText(1996, m, d) : m \in 1..12, d \in 1..31}
    \cup {DateText(y, 3, 21) : y \in 0..MaxEarlyYear}
    \cup {DateText(y, 3, 21) : y \in {1984, 2008, 2020, 2026, 2027, 9999}}
    \cup {DateText(2025, m, d) : m \in {0, 2, 13}, d \in {0, 29, 32}}
    \cup {<<>>, <<"x">>, <<"1", "9", "9", "6", "-", "1", "-", "5">>}

ZodiacInputs ==
  {[fn |-> "zodiac", birthdate |-> b, today |-> td, rollsOver |-> ro] :
     b \in ZodiacBirthdates, td \in Todays, ro \in BOOLEAN}

InitZodiac ==
  /\ input \in ZodiacInputs
  /\ output = NoOutput
  /\ phase = "ready"
  /\ calls = 0
  /\ firstOutput = NoOutput
  /\ generator = NoGenerator
  /\ storage = JNull
  /\ saved = <<>>
  /\ page = NoPage

\* the gate, then both zodiac functions on the birthdate
Zodiac ==
  /\ phase = "ready"
  /\ output' = [t |-> "zodiac",
                valid |-> isValidBirthdate(input.birthdate, input.today, input.rollsOver),
                western |-> getWesternZodiac(input.birthdate),
                chinese |-> getChineseZodiac(input.birthdate)]
  /\ phase' = "done"
  /\ calls' = calls + 1
  /\ firstOutput' = output'
  /\ UNCHANGED <<input, generator, storage, saved, page>>

NextZodiac == Zodiac

SpecZodiac == InitZodiac /\ [][NextZodiac]_vars

\* ------------------------------------------------------------------------
\* Calls of saveFortune and loadFortunes
\* ------------------------------------------------------------------------

MaxSaves == 6

\* three fortunes to save: one all fallback, one of year 0002 (its
\* chineseZodiac is undefined), one with cards authored by the entry (some
\* of their texts are undefined)
StorageFortunes ==
  {generateFortune(FormatDate(1990, 12, 22), FormatDate(2026, 1, 5), JUndef,
                   NoGenerator).view,
   generateFortune(DateText(2, 3, 21), FormatDate(2026, 1, 5), JUndef, NoGenerator).view,
   generateFortune(FormatDate(1996, 1, 19), FormatDate(2026, 1, 6),
                   JObj([ranking |-> JObj([rank |-> JNum(11), sign_key |-> KeyAries,
                                           ai |-> AiFull])]),
                   NoGenerator).view}

InitStorage ==
  /\ input = [fn |-> "storage"]
  /\ output = NoOutput
  /\ phase = "ready"
  /\ calls = 0
  /\ firstOutput = NoOutput
  /\ generator = NoGenerator
  /\ storage \in {JNull, Unavailable}
  /\ saved = <<>>
  /\ page = NoPage

SaveFortune ==
  /\ Len(saved) < MaxSaves
  /\ \E fortune \in StorageFortunes :
       /\ storage' = saveFortune(fortune, storage)
       /\ saved' = Append(saved, fortune)
  /\ phase' = "ready"
  /\ UNCHANGED <<input, output, calls, firstOutput, generator, page>>

LoadFortunes ==
  /\ phase = "ready"
  /\ output' = loadFortunes(storage)
  /\ phase' = "loaded"
  /\ UNCHANGED <<input, calls, firstOutput, generator, storage, saved, page>>

NextStorage == SaveFortune \/ LoadFortunes

SpecStorage == InitStorage /\ [][NextStorage]_vars

\* ------------------------------------------------------------------------
\* The Result page: one run of the effect (src/pages/Input.jsx lines
\* 96-131). page.pc is where load stands: "mounting" before the effect,
\* "fetching" at `await fetch`, "reading" at `await response.json()`,
\* "redirected", "done" (fortune set and saved), "raised" (generateFortune
\* raised and load's promise rejected) or "returned" (cancelled).
\* page.outcome records how the fetch ended, page.invokedWith the options
\* generateFortune was called with.
\* ------------------------------------------------------------------------

KeyCapricorn == JStr(<<"jp_yagi">>)

PageEntries ==
  {JObj([rank |-> JNum(2), sign_key |-> KeyCapricorn, message_ko |-> JStr(<<"msg_ko">>),
         scores |-> JObj([total |-> JNum(77)])]),
   JObj([rank |-> JNum(11), sign_key |-> KeyCapricorn, ai |-> AiFull]),
   JObj([rank |-> JNum(1), sign_key |-> KeyCapricorn,
         ai |-> JObj([summary |-> JObj([one_liner |-> ShadowedToString])])]),
   JObj([rank |-> JNum(1), sign_key |-> KeyCapricorn,
         scores |-> JObj([total |-> ShadowedToString])]),
   JObj([rank |-> JNum(1), sign_key |-> KeyAries])}

\* what response.json() can resolve to
PageBodies ==
  {JObj([status |-> JStr(S_ok), rankings |-> JArr(<<e>>)]) : e \in PageEntries}
    \cup {JNull, JObj(<<>>)}

\* the `birthdate` query values
PageBirthdates ==
  {FormatDate(1990, 12, 22), FormatDate(1996, 1, 19), FormatDate(2026, 1, 5),
   FormatDate(2026, 1, 6), FormatDate(2025, 2, 30), FormatDate(2025, 13, 1),
   DateText(2, 3, 21), <<>>, <<"x">>}

\* how a fetch promise rejects
FetchFailures == {"network_error", "timeout"}

InitPage ==
  /\ input \in {[fn |-> "page", birthdate |-> b, today |-> td, rollsOver |-> ro] :
                  b \in PageBirthdates, td \in Todays, ro \in BOOLEAN}
  /\ output = NoOutput
  /\ phase = "ready"
  /\ calls = 0
  /\ firstOutput = NoOutput
  /\ generator = NoGenerator
  /\ storage \in {JNull, Unavailable}
  /\ saved = <<>>
  /\ page = [pc |-> "mounting", cancelled |-> FALSE, fortune |-> JNull,
             navigated |-> "", outcome |-> "", invokedWith |-> JUndef]

\* the birthdates that pass the gate in some browser
GatedBirthdates ==
  {birthdate \in PageBirthdates :
     \E todayKst \in Todays, rollsOver \in BOOLEAN :
       isValidBirthdate(birthdate, todayKst, rollsOver)}

\* What lines 109-120 leave in rank, scoreOverrides and ranking, for every
\* body and every gated birthdate (a table of optionsOfBody,
\* so that whether a step of load is enabled is decided by a lookup).
loadOptions ==
  [body \in PageBodies, birthdate \in GatedBirthdates, todayKst \in Todays |->
     optionsOfBody(body, birthdate, todayKst)] @@ <<>>

\* every options object load can pass to generateFortune
PageOptions ==
  {NullOptions} \cup {loadOptions[body, birthdate, todayKst] :
                        body \in PageBodies, birthdate \in GatedBirthdates,
                        todayKst \in Todays}

\* Line 122: what generateFortune returns for those (a table of
\* generateFortune; each call creates its own generator, so none is left
\* over from a call before).
loadFortune ==
  [birthdate \in GatedBirthdates, todayKst \in Todays, options \in PageOptions |->
     generateFortune(birthdate, todayKst, options, NoGenerator)] @@ <<>>

\* mutant of finishLoad: line 121 is missing, a cancelled load goes on
finishLoadUncancelled(outcome, options) ==
  \E r \in {loadFortune[input.birthdate, input.today, options]} :
    /\ output' = r.view
    /\ generator' = r.rng
    /\ calls' = calls + 1
    /\ firstOutput' = IF calls = 0 THEN r.view ELSE firstOutput
    /\ phase' = "done"
    /\ IF IsThrow(r.view)
       THEN /\ page' = [page EXCEPT !.pc = "raised", !.outcome = outcome,
                                    !.invokedWith = options]
            /\ UNCHANGED <<storage, saved>>
       ELSE /\ page' = [page EXCEPT !.pc = "done", !.outcome = outcome,
                                    !.invokedWith = options, !.fortune = r.view]
            /\ storage' = saveFortune(r.view, storage)
            /\ saved' = Append(saved, r.view)
    /\ UNCHANGED input

\* lines 121-124, after the try statement, outcome being how the fetch ended
finishLoad(outcome, options) ==
  IF page.cancelled
  THEN /\ page' = [page EXCEPT !.pc = "returned", !.outcome = outcome]
       /\ UNCHANGED <<input, output, phase, calls, firstOutput, generator, storage, saved>>
  ELSE \E r \in {loadFortune[input.birthdate, input.today, options]} :
         /\ output' = r.view
         /\ generator' = r.rng
         /\ calls' = calls + 1
         /\ firstOutput' = IF calls = 0 THEN r.view ELSE firstOutput
         /\ phase' = "done"
         /\ IF IsThrow(r.view)
            THEN /\ page' = [page EXCEPT !.pc = "raised", !.outcome = outcome,
                                         !.invokedWith = options]
                 /\ UNCHANGED <<storage, saved>>
            ELSE /\ page' = [page EXCEPT !.pc = "done", !.outcome = outcome,
                                         !.invokedWith = options, !.fortune = r.view]
                 /\ storage' = saveFortune(r.view, storage)
                 /\ saved' = Append(saved, r.view)
         /\ UNCHANGED input

\* the effect runs and load reaches its first await, or redirects
Mount ==
  /\ page.pc = "mounting"
  /\ page' = IF isValidBirthdate(input.birthdate, input.today, input.rollsOver)
             THEN [page EXCEPT !.pc = "fetching"]
             ELSE [page EXCEPT !.pc = "redirected", !.navigated = "/input"]
  /\ UNCHANGED <<input, output, phase, calls, firstOutput, generator, storage, saved>>

\* the fetch resolves with a success status
FetchOk ==
  /\ page.pc = "fetching"
  /\ page' = [page EXCEPT !.pc = "reading"]
  /\ UNCHANGED <<input, output, phase, calls, firstOutput, generator, storage, saved>>

\* the fetch resolves with a non-success status
FetchNotOk ==
  /\ page.pc = "fetching"
  /\ finishLoad("not_ok", NullOptions)

\* the fetch rejects
FetchRejects ==
  /\ page.pc = "fetching"
  /\ \E failure \in FetchFailures : finishLoad(failure, NullOptions)

\* response.json() resolves
BodyParsed ==
  /\ page.pc = "reading"
  /\ \E body \in PageBodies :
       finishLoad("ok", loadOptions[body, input.birthdate, input.today])

\* response.json() rejects
BodyRejects ==
  /\ page.pc = "reading"
  /\ finishLoad("parse_failed", NullOptions)

\* the effect's cleanup
Unmount ==
  /\ page.pc # "mounting"
  /\ ~page.cancelled
  /\ page' = [page EXCEPT !.cancelled = TRUE]
  /\ UNCHANGED <<input, output, phase, calls, firstOutput, generator, storage, saved>>

NextPage ==
  Mount \/ FetchOk \/ FetchNotOk \/ FetchRejects \/ BodyParsed \/ BodyRejects \/ Unmount

SpecPage == InitPage /\ [][NextPage]_vars

\* The effect runs once the page is mounted, the browser settles every fetch
\* and every body read, and the continuation of load runs when they do.
SpecPageLive ==
  /\ SpecPage
  /\ WF_vars(Mount)
  /\ WF_vars(FetchOk \/ FetchNotOk \/ FetchRejects)
  /\ WF_vars(BodyParsed \/ BodyRejects)

\* ------------------------------------------------------------------------
\* normalizeRanking and normalizeOhaasaScores applied to their own results
\* (generateFortune normalizes again the entry normalizeFortuneJson returned:
\* fortuneEngine.js lines 222-223 after Input.jsx lines 109-122)
\* ------------------------------------------------------------------------

\* entries with a rank, a sign_key and a trend that need repair
RepairedEntries ==
  {JObj([rank |-> JStr(<<"5", "wi">>), sign_key |-> JStr(<<" ", "jp_ohitsuji", " ">>),
         trend |-> JStr(<<" ", "geup", "sang", " ">>),
         scores |-> JObj([overall |-> JStr(<<"8", "0", "x">>), love |-> JNum(250)]),
         ai |-> JObj([cards |-> JObj(<<>>), summary |-> JStr(<<"x">>)])]),
   JObj([rank |-> JNum(12), sign_key |-> JStr(<<"jp_none">>), sign_ko |-> JStr(<<>>),
         toneLabel |-> JStr(<<"ha", "hyang">>), ai |-> JStr(<<"x">>)]),
   JObj([rank |-> JNum(0), sign_key |-> JStr(<<" ">>), status_tag |-> JNum(7),
         trend |-> JStr(T_up), scores |-> JObj([study |-> JFrac(3)])])}

RenormEntries == RawEntries \cup GenRankings \cup PageEntries \cup RepairedEntries

RenormInputs ==
  {[fn |-> "normalizeRanking", entry |-> e] : e \in RenormEntries}
    \cup {[fn |-> "renormalizeScores", scores |-> sc] : sc \in ScoresArguments}

InitRenorm ==
  /\ input \in RenormInputs
  /\ output = NoOutput
  /\ phase = "ready"
  /\ calls = 0
  /\ firstOutput = NoOutput
  /\ generator = NoGenerator
  /\ storage = JNull
  /\ saved = <<>>
  /\ page = NoPage

\* normalizeRanking(x), then normalizeRanking of the entry it returned
RenormalizeRanking ==
  /\ input.fn = "normalizeRanking"
  /\ calls < MaxCalls
  /\ ~IsThrow(output)
  /\ output' = IF calls = 0 THEN normalizeRanking(input.entry, 0)
               ELSE normalizeRanking(output.ranking, 0)
  /\ phase' = "done"
  /\ calls' = calls + 1
  /\ firstOutput' = IF calls = 0 THEN output' ELSE firstOutput
  /\ UNCHANGED <<input, generator, storage, saved, page>>

\* normalizeOhaasaScores(s), then normalizeOhaasaScores of what it returned
RenormalizeScores ==
  /\ input.fn = "renormalizeScores"
  /\ calls < MaxCalls
  /\ ~IsThrow(output)
  /\ output' = IF calls = 0 THEN normalizeOhaasaScores(input.scores)
               ELSE normalizeOhaasaScores(output)
  /\ phase' = "done"
  /\ calls' = calls + 1
  /\ firstOutput' = IF calls = 0 THEN output' ELSE firstOutput
  /\ UNCHANGED <<input, generator, storage, saved, page>>

NextRenorm == RenormalizeRanking \/ RenormalizeScores

SpecRenorm == InitRenorm /\ [][NextRenorm]_vars

\* ------------------------------------------------------------------------
\* src/pages/Input.jsx and src/components/BirthInputCard.jsx : the Input
\* page, from the selects to the Result page's gate.
\* A clock is the UTC civil time [y, m, d, h] of an instant.
\* ------------------------------------------------------------------------

\* the day after y-m-d
NextDay(y, m, d) ==
  IF d < DaysInMonth(y, m) THEN [y |-> y, m |-> m, d |-> d + 1]
  ELSE IF m < 12 THEN [y |-> y, m |-> m + 1, d |-> 1]
  ELSE [y |-> y + 1, m |-> 1, d |-> 1]

\* the civil time `hours` later (0 <= hours <= 24)
civilAfter(clock, hours) ==
  IF clock.h + hours >= 24
  THEN [NextDay(clock.y, clock.m, clock.d) @@ [h |-> clock.h + hours - 24]
          EXCEPT !.h = clock.h + hours - 24]
  ELSE [clock EXCEPT !.h = clock.h + hours]

\* Input.jsx line 17: new Date().toISOString().slice(0, 10)
isoDateOf(clock) == DateText(clock.y, clock.m, clock.d)

\* dateKst.js lines 3-7: the Date whose local fields read UTC + 9 hours. The
\* fields are read with the zone offset of the shifted instant, which
\* differs from the offset of `now` by dstShift hours when a daylight-saving
\* change lies between the two.
getKstDate(clock, dstShift) == civilAfter(clock, 9 + dstShift)

\* dateKst.js lines 9-15
getTodayKstStringAt(kst) == FormatDate(kst.y, kst.m, kst.d)

getTodayKstString(clock, dstShift) == getTodayKstStringAt(getKstDate(clock, dstShift))

\* BirthInputCard.jsx line 9: the local year, zone hours ahead of UTC
currentYearOf(clock, zone) == civilAfter(clock, zone).y

\* BirthInputCard.jsx line 10
yearOptions(currentYear) ==
  {NatToDigits(currentYear - index) : index \in 0..(currentYear - 1899 - 1)}

\* BirthInputCard.jsx line 11
monthOptions == {pad(index + 1) : index \in 0..11}

\* BirthInputCard.jsx line 13
dayOptions(daysInMonth) == {pad(index + 1) : index \in 0..(daysInMonth - 1)}

\* getDaysInMonth(year, month): new Date(Number(year), Number(month), 0).getDate()
getDaysInMonth(year, month) ==
  IF Len(year) = 0 \/ Len(month) = 0 THEN 31
  ELSE DaysInMonth(DigitsToNat(year), DigitsToNat(month))

\* Input.jsx lines 18-23 (and 42-45): the birthdate of the parts, '' while
\* one is missing
birthdateOf(parts) ==
  IF Len(parts.year) = 0 \/ Len(parts.month) = 0 \/ Len(parts.day) = 0 THEN <<>>
  ELSE parts.year \o <<"-">> \o parts.month \o <<"-">> \o parts.day

\* validate(value): the error shown, '' when there is none
validate(value, inputToday) ==
  IF Len(value) = 0 THEN "required"
  ELSE IF ~StrLessEq(value, inputToday) THEN "future"
  ELSE ""

\* lines 36-39
normalizedPartsOf(nextParts) ==
  [nextParts EXCEPT !.day =
     IF Len(nextParts.day) > 0
        /\ DigitsToNat(nextParts.day) <= getDaysInMonth(nextParts.year, nextParts.month)
     THEN nextParts.day ELSE <<>>]

\* lines 42-46, from the normalized parts on
errorOfParts(normalizedParts, inputToday) ==
  IF Len(birthdateOf(normalizedParts)) > 0
  THEN validate(birthdateOf(normalizedParts), inputToday)
  ELSE ""

\* handlePartsChange(nextParts)
handlePartsChange(nextParts) ==
  /\ page.pc = "input"
  /\ page' = [page EXCEPT !.parts = normalizedPartsOf(nextParts),
                          !.error = errorOfParts(normalizedPartsOf(nextParts), page.today)]
  /\ UNCHANGED <<input, output, phase, calls, firstOutput, generator, storage, saved>>

\* the years, months and days the model picks among those the selects offer
SampleYears == {1900, 2024, 2026, 2027}

SampleMonths == {1, 2, 4, 12}

SampleDays == {1, 5, 6, 28, 29, 30, 31}

\* the instants the Input page is opened at, and the hours the local zone
\* is ahead of UTC
InputClocks ==
  {[clock |-> [y |-> 2026, m |-> 1, d |-> 5, h |-> 14], zone |-> 0],
   [clock |-> [y |-> 2026, m |-> 12, d |-> 31, h |-> 15], zone |-> 14],
   [clock |-> [y |-> 2026, m |-> 12, d |-> 31, h |-> 23], zone |-> 0],
   [clock |-> [y |-> 2024, m |-> 2, d |-> 28, h |-> 23], zone |-> 9]}

\* the hours a daylight-saving change can put between the two offsets
DstShifts == {-1, 0, 1}

\* how many hours pass at most while the page is open
MaxHours == 1

InitInput ==
  /\ input \in {[fn |-> "inputPage", clock |-> c.clock, zone |-> c.zone] : c \in InputClocks}
  /\ output = NoOutput
  /\ phase = "ready"
  /\ calls = 0
  /\ firstOutput = NoOutput
  /\ generator = NoGenerator
  /\ storage = JNull
  /\ saved = <<>>
  /\ page = [pc |-> "input", parts |-> [year |-> <<>>, month |-> <<>>, day |-> <<>>],
             error |-> "", today |-> isoDateOf(input.clock), clock |-> input.clock,
             hours |-> 0, query |-> <<>>, todayKst |-> <<>>, navigated |-> ""]

\* BirthInputCard.jsx line 26: a year, or the placeholder, is chosen
ChangeYear ==
  \E year \in {<<>>} \cup (yearOptions(currentYearOf(page.clock, input.zone))
                          \cap {NatToDigits(y) : y \in SampleYears}) :
    handlePartsChange([page.parts EXCEPT !.year = year])

\* BirthInputCard.jsx line 38
ChangeMonth ==
  \E month \in {<<>>} \cup (monthOptions \cap {pad(m) : m \in SampleMonths}) :
    handlePartsChange([page.parts EXCEPT !.month = month])

\* BirthInputCard.jsx line 50
ChangeDay ==
  \E day \in {<<>>} \cup (dayOptions(getDaysInMonth(page.parts.year, page.parts.month))
                         \cap {pad(d) : d \in SampleDays}) :
    handlePartsChange([page.parts EXCEPT !.day = day])

\* an hour passes while the Input page is open
HourPasses ==
  /\ page.pc = "input"
  /\ page.hours < MaxHours
  /\ page' = [page EXCEPT !.clock = civilAfter(page.clock, 1), !.hours = page.hours + 1]
  /\ UNCHANGED <<input, output, phase, calls, firstOutput, generator, storage, saved>>

\* handleSubmit, the button being enabled (line 64)
Submit ==
  /\ page.pc = "input"
  /\ Len(birthdateOf(page.parts)) > 0
  /\ page.error = ""
  /\ page' = IF validate(birthdateOf(page.parts), page.today) # ""
             THEN [page EXCEPT !.error = validate(birthdateOf(page.parts), page.today)]
             ELSE [page EXCEPT !.pc = "navigated", !.query = birthdateOf(page.parts),
                               !.navigated = "/result"]
  /\ UNCHANGED <<input, output, phase, calls, firstOutput, generator, storage, saved>>

\* the Result page mounts with the query (lines 93-102): the gate, in either
\* kind of browser and with or without a daylight-saving change nearby
Arrive ==
  /\ page.pc = "navigated"
  /\ \E dstShift \in DstShifts, rollsOver \in BOOLEAN :
       page' = IF isValidBirthdate(page.query, getTodayKstString(page.clock, dstShift),
                                   rollsOver)
               THEN [page EXCEPT !.pc = "fetching",
                                 !.todayKst = getTodayKstString(page.clock, dstShift)]
               ELSE [page EXCEPT !.pc = "redirected", !.navigated = "/input",
                                 !.todayKst = getTodayKstString(page.clock, dstShift)]
  /\ UNCHANGED <<input, output, phase, calls, firstOutput, generator, storage, saved>>

NextInput == ChangeYear \/ ChangeMonth \/ ChangeDay \/ HourPasses \/ Submit \/ Arrive

SpecInput == InitInput /\ [][NextInput]_vars

\* ------------------------------------------------------------------------
\* src/App.jsx : the page transition. A location is its pathname, search
\* and hash taken together; raf says whether an animation frame is
\* requested. Every handler is taken with the render and the effects that
\* follow it.
\* ------------------------------------------------------------------------

AppLocations == {"/", "/input", "/result?birthdate=1990-12-22"}

TransitionProperties == {"opacity", "transform"}

\* how many navigations the model follows
MaxNavigations == 3

\* lines 14-22: the stage after the first effect has run
stageAfterLocationEffect(location, displayLocation, transitionStage) ==
  IF location # displayLocation THEN "fade-out" ELSE transitionStage

\* lines 24-32: the frame requested for the stage, the cleanup having
\* cancelled the frame of the stage before when the stage changed
rafAfterStageEffect(before, after, raf) ==
  IF before = after THEN raf ELSE after = "pre-fade-in"

\* the state after a render with these values and the effects that follow
rendered(location, displayLocation, transitionStage, event) ==
  [page EXCEPT
     !.location = location,
     !.displayLocation = displayLocation,
     !.transitionStage =
        stageAfterLocationEffect(location, displayLocation, transitionStage),
     !.raf = rafAfterStageEffect(page.transitionStage,
               stageAfterLocationEffect(location, displayLocation, transitionStage),
               page.raf),
     !.event = event]

InitApp ==
  /\ input \in {[fn |-> "app", start |-> l] : l \in AppLocations}
  /\ output = NoOutput
  /\ phase = "ready"
  /\ calls = 0
  /\ firstOutput = NoOutput
  /\ generator = NoGenerator
  /\ storage = JNull
  /\ saved = <<>>
  /\ page = [pc |-> "app", location |-> input.start, displayLocation |-> input.start,
             transitionStage |-> "fade-in", raf |-> FALSE, event |-> "mount",
             navigations |-> 0]

\* the router's location changes (line 10) and the app renders again
Navigate ==
  /\ page.pc = "app"
  /\ page.navigations < MaxNavigations
  /\ \E next \in AppLocations \ {page.location} :
       page' = [rendered(next, page.displayLocation, page.transitionStage, "navigate")
                  EXCEPT !.navigations = page.navigations + 1]
  /\ UNCHANGED <<input, output, phase, calls, firstOutput, generator, storage, saved>>

\* handleTransitionEnd for an opacity transition (lines 34-40)
OpacityTransitionEnd ==
  /\ page.pc = "app"
  /\ page' = IF page.transitionStage = "fade-out"
             THEN rendered(page.location, page.location, "pre-fade-in", "opacity")
             ELSE [page EXCEPT !.event = "opacity"]
  /\ UNCHANGED <<input, output, phase, calls, firstOutput, generator, storage, saved>>

\* handleTransitionEnd for a transition of another property (line 35)
OtherTransitionEnd ==
  /\ page.pc = "app"
  /\ \E property \in TransitionProperties \ {"opacity"} :
       page' = [page EXCEPT !.event = property]
  /\ UNCHANGED <<input, output, phase, calls, firstOutput, generator, storage, saved>>

\* the requested animation frame fires (lines 26-28)
AnimationFrame ==
  /\ page.pc = "app"
  /\ page.raf
  /\ page' = [rendered(page.location, page.displayLocation, "fade-in", "frame")
                EXCEPT !.raf = FALSE]
  /\ UNCHANGED <<input, output, phase, calls, firstOutput, generator, storage, saved>>

NextApp == Navigate \/ OpacityTransitionEnd \/ OtherTransitionEnd \/ AnimationFrame

SpecApp == InitApp /\ [][NextApp]_vars

\* transitionend events for opacity keep arriving while the page is faded
\* out, and a requested animation frame fires.
SpecAppLive ==
  /\ SpecApp
  /\ WF_vars(OpacityTransitionEnd /\ page.transitionStage = "fade-out")
  /\ WF_vars(AnimationFrame)

\* ------------------------------------------------------------------------
\* Properties of the normalizer (checked under SpecNorm)
\* ------------------------------------------------------------------------

Returned == phase = "done" /\ ~IsThrow(output)

\* the payload's rankings as normalizeFortuneJson reads them
InRankings ==
  LET r == Get(input.data, "rankings") IN IF r.t = "arr" THEN r.v ELSE <<>>

OutRankings == output.v.rankings.v

OutWarnings == output.v.warnings

\* The rank a raw entry resolves to, as the specification words it: an
\* integer is taken directly, a string gives its digit characters
\* concatenated and read base 10, anything else gives none (0 here).
ClaimRank(item) ==
  LET raw == Get(item, "rank")
  IN IF raw.t = "num" THEN raw.v
     ELSE IF raw.t = "str" /\ \E i \in 1..Len(raw.v) : IsDigit(raw.v[i])
          THEN DigitsToNat(SelectSeq(raw.v, IsDigit))
          ELSE 0

\* the indices of the input entries that resolve to rank r
IndicesOfRank(r) == {i \in 1..Len(InRankings) : ClaimRank(InRankings[i]) = r}

MinOf(S) == CHOOSE m \in S : \A n \in S : m <= n

CountOf(seq, x) == Cardinality({i \in 1..Len(seq) : seq[i] = x})

\* C2: the output rankings are strictly ascending by rank, every rank is an
\* integer in 1..12, no rank occurs twice and there are at most 12 entries.
C2_RankingsSortedUnique ==
  Returned =>
    /\ Len(OutRankings) \in 0..12
    /\ \A i \in 1..Len(OutRankings) :
         /\ OutRankings[i].v["rank"].t = "num"
         /\ OutRankings[i].v["rank"].v \in 1..12
    /\ \A i, j \in 1..Len(OutRankings) :
         i < j => OutRankings[i].v["rank"].v < OutRankings[j].v["rank"].v

\* C2 witness: entries 5, 1, "5wi" came in out of order with a duplicate and
\* two entries came out.
C2_Witness ==
  /\ Returned
  /\ Len(InRankings) = 3
  /\ Get(InRankings[1], "rank") = JNum(5)
  /\ Get(InRankings[2], "rank") = JNum(1)
  /\ Get(InRankings[3], "rank") = JStr(<<"5", "wi">>)
  /\ Len(OutRankings) = 2

\* C3: of the raw entries that resolve to one valid rank r, the earliest in
\* input order is the one kept, and every other one is reported by exactly
\* one warning "duplicate rank r".
C3_DedupFirstWins ==
  Returned =>
    \A r \in 1..12 :
      IndicesOfRank(r) # {} =>
        LET first == MinOf(IndicesOfRank(r))
            kept == {j \in 1..Len(OutRankings) : OutRankings[j].v["rank"] = JNum(r)}
        IN /\ Cardinality(kept) = 1
           /\ \A j \in kept :
                /\ OutRankings[j] = normalizeRanking(InRankings[first], first - 1).ranking
                /\ OutRankings[j].v["message_jp"] = Get(InRankings[first], "message_jp")
           /\ CountOf(OutWarnings, WarnDuplicateRank(r)) = Cardinality(IndicesOfRank(r)) - 1

\* C3 witness: "5wi", 1, 5 came in; the entry marked m1 holds rank 5 in the
\* output and one duplicate warning was recorded.
C3_Witness ==
  /\ Returned
  /\ Len(InRankings) = 3
  /\ Get(InRankings[1], "rank") = JStr(<<"5", "wi">>)
  /\ Get(InRankings[2], "rank") = JNum(1)
  /\ Get(InRankings[3], "rank") = JNum(5)
  /\ Len(OutRankings) = 2
  /\ OutRankings[2].v["message_jp"] = Marker(1)
  /\ CountOf(OutWarnings, WarnDuplicateRank(5)) = 1

\* C4: a raw entry at index i whose parsed rank is not an integer in 1..12
\* gets rank null and exactly one warning "invalid rank at index i", and is
\* absent from the output rankings.
C4_RankClamp ==
  Returned =>
    \A i \in 1..Len(InRankings) :
      ClaimRank(InRankings[i]) \notin 1..12 =>
        LET n == normalizeRanking(InRankings[i], i - 1)
        IN /\ n.ranking.v["rank"] = JNull
           /\ CountOf(n.warnings, WarnInvalidRank(i - 1)) = 1
           /\ CountOf(OutWarnings, WarnInvalidRank(i - 1)) = 1
           /\ \A j \in 1..Len(OutRankings) :
                /\ OutRankings[j] # n.ranking
                /\ Truthy(Get(InRankings[i], "message_jp"))
                     => OutRankings[j].v["message_jp"] # Get(InRankings[i], "message_jp")

\* C4 witness: the raw rank "13" at index 0 was dropped, the entry after it kept.
C4_Witness ==
  /\ Returned
  /\ Len(InRankings) = 2
  /\ Get(InRankings[1], "rank") = JStr(<<"1", "3">>)
  /\ Len(OutRankings) = 1
  /\ OutRankings[1].v["message_jp"] = Marker(2)
  /\ CountOf(OutWarnings, WarnInvalidRank(0)) = 1

C6_StatusInEnum ==
  Returned => output.v.status \in {JStr(S_ok), JStr(S_partial), JStr(S_error)}

C10_NeverThrows ==
  phase = "done" =>
    /\ ~IsThrow(output)
    /\ output.t = "obj"
    /\ DOMAIN output.v = {"source", "date_kst", "updated_at_kst", "status",
                          "error_message", "rankings", "warnings"}

\* ------------------------------------------------------------------------
\* Properties of the score normalizer and the generator (checked under
\* SpecGen)
\* ------------------------------------------------------------------------

Generated == input.fn = "generateFortune" /\ calls >= 1

ScoresNormalized == input.fn = "normalizeOhaasaScores" /\ calls >= 1

\* C1: generateFortune is deterministic: every call on the same birthdate,
\* today string and options returned what the first call on them returned
\* (the same view with the same cards, lucky bundle and summary, or the same
\* exception).
C1_Deterministic == Generated => output = firstOutput

\* C1 witness: generateFortune was called twice without options, so every
\* score and every lucky point was drawn, and the second call returned the
\* view of the first, whose total score is 73.
C1_Witness ==
  /\ Generated
  /\ calls = 2
  /\ input.options = JUndef
  /\ input.birthdate = FormatDate(1990, 12, 22)
  /\ input.today = FormatDate(2026, 1, 5)
  /\ output.t = "view"
  /\ output.fortunes[1].score = 73
  /\ output = firstOutput

\* C7: every non-null field of the scores normalizeOhaasaScores returns is
\* an integer in 0..100, and generateFortune returns five cards whose scores
\* are integers in 0..100, whether they come from explicit scores, from the
\* rank's range or from the default range.
C7_ScoreBounds ==
  /\ (ScoresNormalized /\ output.t = "obj") =>
        \A k \in SCORE_KEYS :
          output.v[k].t = "null" \/ (output.v[k].t = "num" /\ output.v[k].v \in 0..100)
  /\ (Generated /\ output.t = "view") =>
        /\ Len(output.fortunes) = 5
        /\ \A i \in 1..5 : output.fortunes[i].score \in 0..100

\* C7 witness: generateFortune was given the raw scores total 250 and health
\* "-5" and returned a total card of 100, a health card of 0 and a drawn
\* love card.
C7_Witness ==
  /\ Generated
  /\ input.options = JObj([rank |-> JNum(1),
                           scores |-> JObj([total |-> JNum(250),
                                            health |-> JStr(<<"-", "5">>)])])
  /\ output.t = "view"
  /\ output.fortunes[1].score = 100
  /\ output.fortunes[5].score = 0
  /\ output.fortunes[2].score \in 25..98

\* a raw field carries a number when it parses to one
CarriesNumber(x) == clampScore(x, JNull).t = "num"

\* the clamped scores of the categories of the raw object that carry a number
PresentCategories(scores) ==
  SelectSeq([i \in 1..4 |-> clampScore(Get(scores, CategoryKeys[i]), JNull)],
            NumberIsFinite)

\* the total the resolution law names for a raw scores object
ClaimedTotal(scores) ==
  IF CarriesNumber(Get(scores, "total")) THEN clampScore(Get(scores, "total"), JNull).v
  ELSE IF CarriesNumber(Get(scores, "overall"))
       THEN clampScore(Get(scores, "overall"), JNull).v
  ELSE IF Len(PresentCategories(scores)) > 0
       THEN (2 * SumValues(PresentCategories(scores)) + Len(PresentCategories(scores)))
              \div (2 * Len(PresentCategories(scores)))
  ELSE 50

\* C8: for an object input, the total normalizeOhaasaScores returns is the
\* clamped `total`, or the clamped `overall` when `total` carries no number,
\* or the mean of the present clamped categories rounded half up when
\* neither does, or 50 when no field carries a number, and then the four
\* categories are null.
C8_TotalResolution ==
  (ScoresNormalized /\ input.scores.t = "obj") =>
     /\ output.t = "obj"
     /\ output.v["total"] = JNum(ClaimedTotal(input.scores))
     /\ (/\ ~CarriesNumber(Get(input.scores, "total"))
         /\ ~CarriesNumber(Get(input.scores, "overall"))
         /\ Len(PresentCategories(input.scores)) = 0)
        => \A i \in 1..4 : output.v[CategoryKeys[i]] = JNull

\* C8, where it holds: the same law for the objects whose `total` is absent,
\* null or a number.
C8_TotalResolutionNullishTotal ==
  (/\ ScoresNormalized
   /\ input.scores.t = "obj"
   /\ (IsNullish(Get(input.scores, "total")) \/ CarriesNumber(Get(input.scores, "total"))))
  => C8_TotalResolution

\* a non-empty string
IsText(x) == x.t = "str" /\ Len(x.v) > 0

\* the call had no matched entry: rank, scores and ranking are all null
NoMatchedEntry ==
  /\ input.options.t # "null"
  /\ \A k \in {"rank", "scores", "ranking"} : DefaultNull(Get(input.options, k)) = JNull

\* the card is complete: its four texts are non-empty strings
CardComplete(card) ==
  /\ card.t = "card"
  /\ IsText(card.headline)
  /\ IsText(card.detail)
  /\ IsText(card.tip)
  /\ IsText(card.caution)

InPool(x, pool) == \E i \in 1..Len(pool) : pool[i] = x

\* C11: generateFortune called with no matched entry returns the five cards
\* total, love, study, money, health in that order, each with non-empty
\* headline, detail, tip and caution, and a lucky bundle whose color and
\* colorName are those of one fallback color, whose number is an integer in
\* 1..9 and whose item and keyword are in the fallback pools.
C11_FallbackComplete ==
  (Generated /\ NoMatchedEntry) =>
     /\ output.t = "view"
     /\ Len(output.fortunes) = 5
     /\ \A i \in 1..5 :
          /\ CardComplete(output.fortunes[i])
          /\ output.fortunes[i].key = CardKeys[i]
     /\ \E i \in 1..Len(FALLBACK_LUCKY_COLORS) :
          /\ output.lucky.color = FALLBACK_LUCKY_COLORS[i].value
          /\ output.lucky.colorName = FALLBACK_LUCKY_COLORS[i].name
     /\ output.lucky.number.t = "num"
     /\ output.lucky.number.v \in 1..9
     /\ InPool(output.lucky.item, FALLBACK_ITEMS)
     /\ InPool(output.lucky.keyword, FALLBACK_KEYWORDS)

\* C11 witness: the call of 1990-12-22 on 2026-01-05 with an empty options
\* object returned fallback cards and drew emerald green, 1, the card wallet.
C11_Witness ==
  /\ Generated
  /\ NoMatchedEntry
  /\ input.options = JObj(<<>>)
  /\ input.birthdate = FormatDate(1990, 12, 22)
  /\ input.today = FormatDate(2026, 1, 5)
  /\ output.t = "view"
  /\ output.fortunes[3].headline = FALLBACK_TEXT["low"].title
  /\ output.lucky.colorName = JStr(<<"emerald_green">>)
  /\ output.lucky.number = JNum(1)
  /\ output.lucky.item = JStr(<<"card_wallet">>)

\* C12: for any matched entry, also one whose ai.cards holds a card of the
\* matching category with missing or empty texts, each of the five cards
\* returned has a non-empty headline, detail, tip and caution.
C12_CardsComplete ==
  (Generated /\ output.t = "view") =>
     /\ Len(output.fortunes) = 5
     /\ \A i \in 1..5 : CardComplete(output.fortunes[i])

\* C12, where it holds: the same for the calls whose entry authored no card.
C12_CardsCompleteWithoutAiCards ==
  (Generated /\ Get(Get(Get(input.options, "ranking"), "ai"), "cards").t # "arr")
    => C12_CardsComplete

\* C13: lucky.number of every view returned is an integer in 1..9, whether
\* drawn or supplied by the entry's ai.lucky_points.
C13_LuckyNumberRange ==
  (Generated /\ output.t = "view") =>
     /\ output.lucky.number.t = "num"
     /\ output.lucky.number.v \in 1..9

\* C13, where it holds: the same for the calls whose entry supplied no
\* integer lucky number.
C13_LuckyNumberRangeDrawn ==
  (/\ Generated
   /\ ~NumberIsInteger(Get(Get(Get(Get(input.options, "ranking"), "ai"),
                               "lucky_points"), "number")))
    => C13_LuckyNumberRange

\* ------------------------------------------------------------------------
\* Properties of the zodiac functions (checked under SpecZodiac)
\* ------------------------------------------------------------------------

BirthYear == DigitsToNat(SubSeq(input.birthdate, 1, 4))

BirthMonth == DigitsToNat(SubSeq(input.birthdate, 6, 7))

BirthDay == DigitsToNat(SubSeq(input.birthdate, 9, 10))

\* the birthdate names a day of the calendar
IsCalendarDay ==
  /\ DATE_RE_test(input.birthdate)
  /\ BirthMonth \in 1..12
  /\ BirthDay \in 1..DaysInMonth(BirthYear, BirthMonth)

MonthDay == 100 * BirthMonth + BirthDay

\* the ranges of the table that match the birthdate's month and day
MatchingRanges ==
  {i \in 1..Len(ranges) :
     rangeMatches(JNum(MonthDay), toDayValue(ranges[i].start), toDayValue(ranges[i].end))}

\* the twelve signs by first day (month * 100 + day), in calendar order
SignStarts ==
  << <<120, "mulbyeong">>, <<219, "mulgogi">>, <<321, "yang">>, <<420, "hwangso">>,
     <<521, "ssangdungi">>, <<622, "ge">>, <<723, "saja">>, <<823, "cheonyeo">>,
     <<924, "cheonching">>, <<1023, "jeongal">>, <<1123, "sasu">>, <<1222, "yeomso">> >>

\* the sign of a month and day: the last sign begun, Capricorn before 01-20
ClaimedSign(md) ==
  IF md < 120 THEN "yeomso"
  ELSE SignStarts[CHOOSE i \in 1..12 :
                    /\ SignStarts[i][1] <= md
                    /\ (i = 12 \/ md < SignStarts[i + 1][1])][2]

\* C14: for every month and day of the calendar exactly one of the twelve
\* ranges matches and getWesternZodiac returns its name; 12-22 and later and
\* 01-19 and earlier are Capricorn, 01-20 is Aquarius.
C14_WesternZodiacPartition ==
  (phase = "done" /\ IsCalendarDay) =>
     /\ Cardinality(MatchingRanges) = 1
     /\ \A i \in MatchingRanges : output.western = JStr(<<ranges[i].name>>)
     /\ output.western = JStr(<<ClaimedSign(MonthDay)>>)
     /\ (MonthDay >= 1222 \/ MonthDay <= 119) => output.western = JStr(<<"yeomso">>)
     /\ MonthDay = 120 => output.western = JStr(<<"mulbyeong">>)

\* C14 witness: getWesternZodiac was applied to 1996-12-22, the first day of
\* the wraparound range, and returned Capricorn.
C14_Witness ==
  /\ phase = "done"
  /\ input.birthdate = DateText(1996, 12, 22)
  /\ IsCalendarDay
  /\ output.western = JStr(<<"yeomso">>)

\* C15: for every birthdate the gate accepts, getChineseZodiac returns the
\* animal at index (year - 4) mod 12 of the cycle, one of the twelve
\* animals, the Rat for 1996.
C15_ChineseZodiacCycle ==
  (phase = "done" /\ output.valid) =>
     /\ output.chinese = JStr(<<animals[((BirthYear - 4) % 12) + 1]>>)
     /\ \E i \in 1..12 : output.chinese = JStr(<<animals[i]>>)
     /\ BirthYear = 1996 => output.chinese = JStr(<<"jwi">>)

\* C15, where it holds: the same for the accepted birthdates of year 0004
\* and later.
C15_ChineseZodiacCycleFromYear4 ==
  (phase = "done" /\ output.valid /\ BirthYear >= 4) => C15_ChineseZodiacCycle

\* ------------------------------------------------------------------------
\* Further properties of the generator (checked under SpecGen)
\* ------------------------------------------------------------------------

\* C16: every card returned by generateFortune, authored by the entry or
\* fallback, has tone low iff its score is below 40, mid iff it is in
\* 40..69 and high iff it is 70 or more.
C16_ToneBuckets ==
  (Generated /\ output.t = "view") =>
     \A i \in 1..Len(output.fortunes) :
       /\ output.fortunes[i].tone = "low" <=> output.fortunes[i].score < 40
       /\ output.fortunes[i].tone = "mid" <=>
            (output.fortunes[i].score >= 40 /\ output.fortunes[i].score < 70)
       /\ output.fortunes[i].tone = "high" <=> output.fortunes[i].score >= 70

\* C16 witness: the scores 39, 40, 69 and 70 were given and the four cards
\* came out low, mid, mid and high.
C16_Witness ==
  /\ Generated
  /\ output.t = "view"
  /\ output.fortunes[1].score = 39 /\ output.fortunes[1].tone = "low"
  /\ output.fortunes[2].score = 40 /\ output.fortunes[2].tone = "mid"
  /\ output.fortunes[3].score = 69 /\ output.fortunes[3].tone = "mid"
  /\ output.fortunes[4].score = 70 /\ output.fortunes[4].tone = "high"

\* the raw scores the call resolves: the options' scores, else the entry's
EffectiveScores ==
  OrElse(DefaultNull(Get(input.options, "scores")),
         Get(Get(input.options, "ranking"), "scores"))

\* no scores object at all was supplied
NoScoresObject == ~Truthy(EffectiveScores) \/ ~TypeofObject(EffectiveScores)

\* neither `total` nor `overall` of the raw scores carries a number
NoExplicitTotal ==
  /\ ~CarriesNumber(Get(EffectiveScores, "total"))
  /\ ~CarriesNumber(Get(EffectiveScores, "overall"))

GivenRank == DefaultNull(Get(input.options, "rank"))

\* the range the specification names for rank r in 1..12
ClaimedRange(r) ==
  IF r <= 3 THEN 85..100
  ELSE IF r <= 6 THEN 65..85
  ELSE IF r <= 9 THEN 45..65
  ELSE 20..45

\* the total card's score is in the rank's range, or in 25..98 without rank
TotalInRankRange ==
  /\ (GivenRank.t = "num" /\ GivenRank.v \in 1..12) =>
        output.fortunes[1].score \in ClaimedRange(GivenRank.v)
  /\ GivenRank.t = "null" => output.fortunes[1].score \in 25..98

\* C20 as stated: whenever no explicit total is supplied, also when a scores
\* object is present but empty or holds only categories, the total card's
\* score lies in the range of the given rank, and in 25..98 without rank.
C20_RankTotalWheneverNoTotal ==
  (Generated /\ output.t = "view" /\ NoExplicitTotal) => TotalInRankRange

\* C20 amended: when no scores object is supplied the total card's score
\* lies in the range of the given rank, and in 25..98 without rank; when a
\* scores object is supplied without an explicit total the total card's
\* score is the normalized total, the rounded mean of its categories or 50.
C20_RankTotalWithoutScores ==
  (Generated /\ output.t = "view" /\ NoExplicitTotal) =>
     IF NoScoresObject THEN TotalInRankRange
     ELSE output.fortunes[1].score = ClaimedTotal(EffectiveScores)

\* C20 witness: rank 1 was given without scores on 2026-01-05 and the total
\* card's score was drawn from 85..100; it is not the 73 that the default
\* range gives for this seed.
C20_Witness ==
  /\ Generated
  /\ input.options = JObj([rank |-> JNum(1)])
  /\ input.birthdate = FormatDate(1990, 12, 22)
  /\ input.today = FormatDate(2026, 1, 5)
  /\ output.t = "view"
  /\ NoScoresObject
  /\ output.fortunes[1].score \in 85..100

\* ------------------------------------------------------------------------
\* Properties of the history (checked under SpecStorage)
\* ------------------------------------------------------------------------

\* what a stored property reads as
ReadBack(x) == IF x.t = "dropped" THEN JUndef ELSE x

SameCard(stored, card) ==
  /\ stored.key = card.key
  /\ stored.name = card.name
  /\ stored.score = card.score
  /\ stored.tone = card.tone
  /\ ReadBack(stored.toneLabel) = card.toneLabel
  /\ ReadBack(stored.headline) = card.headline
  /\ ReadBack(stored.detail) = card.detail
  /\ ReadBack(stored.tip) = card.tip
  /\ ReadBack(stored.caution) = card.caution

\* every property of the stored entry reads as that of the fortune saved
SameFortune(stored, fortune) ==
  /\ stored.date = fortune.date
  /\ stored.birthdate = fortune.birthdate
  /\ ReadBack(stored.westernZodiac) = fortune.westernZodiac
  /\ ReadBack(stored.chineseZodiac) = fortune.chineseZodiac
  /\ ReadBack(stored.summary) = fortune.summary
  /\ stored.summaryTip = JNull
  /\ stored.summaryWarning = JNull
  /\ Len(stored.fortunes) = Len(fortune.fortunes)
  /\ \A i \in 1..Len(fortune.fortunes) : SameCard(stored.fortunes[i], fortune.fortunes[i])
  /\ \A k \in DOMAIN fortune.lucky : ReadBack(stored.lucky[k]) = fortune.lucky[k]

StoredHistory == existingOf(storage)

\* C19: after any sequence of saveFortune calls from empty storage the
\* stored history has at most 5 entries, the min(n, 5) latest fortunes
\* saved, latest first, and loadFortunes returns that list.
C19_HistoryBounded ==
  storage.t # "unavailable" =>
     /\ Len(StoredHistory) <= 5
     /\ Len(StoredHistory) = Min(Len(saved), 5)
     /\ \A i \in 1..Len(StoredHistory) :
          SameFortune(StoredHistory[i], saved[Len(saved) - i + 1])
     /\ phase = "loaded" => output = StoredHistory

\* C19 witness: six fortunes were saved, the first unlike the last, and
\* loadFortunes returned five entries, the latest saved first.
C19_Witness ==
  /\ storage.t # "unavailable"
  /\ phase = "loaded"
  /\ Len(saved) = 6
  /\ saved[1] # saved[6]
  /\ saved[5] # saved[6]
  /\ Len(output) = 5
  /\ SameFortune(output[1], saved[6])
  /\ SameFortune(output[5], saved[2])

\* ------------------------------------------------------------------------
\* Properties of the Result page (checked under SpecPage and SpecPageLive)
\* ------------------------------------------------------------------------

\* the birthdate matches YYYY-MM-DD, names a day of the calendar and is not
\* later than today
ValidBirthdate == IsCalendarDay /\ StrLessEq(input.birthdate, input.today)

FailureOutcomes == {"not_ok", "network_error", "timeout", "parse_failed"}

\* generateFortune was invoked once and its fortune was set
OneFortuneSet == calls = 1 /\ page.fortune.t = "view"

\* C17: with a valid birthdate, however the fetch of /fortune.json ends, the
\* page (unless its effect is cleaned up first) eventually has invoked
\* generateFortune exactly once and set a fortune; generateFortune is never
\* invoked twice, and after a failed fetch it is invoked with rank, scores
\* and ranking null.
C17_EventuallyOneFortune ==
  /\ [](calls <= 1)
  /\ []((page.outcome \in FailureOutcomes /\ calls = 1) => page.invokedWith = NullOptions)
  /\ (page.pc = "mounting" /\ ValidBirthdate) ~> (page.cancelled \/ OneFortuneSet)

\* C17, where it holds: the same, the page being also allowed to end with
\* generateFortune having raised.
C17_EventuallyOneFortuneOrRaised ==
  /\ [](calls <= 1)
  /\ []((page.outcome \in FailureOutcomes /\ calls = 1) =>
          (page.invokedWith = NullOptions /\ OneFortuneSet))
  /\ [](page.pc = "raised" => page.outcome = "ok")
  /\ (page.pc = "mounting" /\ ValidBirthdate)
       ~> (page.cancelled \/ OneFortuneSet \/ page.pc = "raised")

\* C18: generateFortune and saveFortune are invoked only with a birthdate
\* that matches YYYY-MM-DD, is not later than today and names a month and
\* day that exist in its year; for any other birthdate the page redirects
\* to /input without generating or saving.
C18_BirthdateGate ==
  /\ (calls >= 1 \/ Len(saved) >= 1) => ValidBirthdate
  /\ (page.pc # "mounting" /\ ~ValidBirthdate) =>
        (page.navigated = "/input" /\ calls = 0 /\ Len(saved) = 0)

\* C18, where it holds: the same on an engine whose Date rejects a day the
\* month does not have.
C18_BirthdateGateStrictDates == ~input.rollsOver => C18_BirthdateGate

\* ------------------------------------------------------------------------
\* Properties of the cards and the summary (checked under SpecGen)
\* ------------------------------------------------------------------------

\* the entry the call was given, as the caller passed it
GivenEntry == Get(input.options, "ranking")

\* the cards the entry authored, none when ai.cards is absent or no list
AuthoredCards ==
  IF Get(Get(GivenEntry, "ai"), "cards").t = "arr"
  THEN Get(Get(GivenEntry, "ai"), "cards").v
  ELSE <<>>

\* where the cards of category key are in the entry's list
MatchingCards(key) ==
  {i \in 1..Len(AuthoredCards) : Get(AuthoredCards[i], "category") = JStr(<<key>>)}

\* the first card of category key in list order
AuthoredCard(key) == AuthoredCards[MinOf(MatchingCards(key))]

\* the label the specification gives a tone
ClaimedToneLabel(tone) ==
  CASE tone = "low" -> JStr(T_caution)
    [] tone = "mid" -> JStr(T_stable)
    [] tone = "high" -> JStr(T_up)

\* C21: every card returned by generateFortune, its text authored by the
\* entry or taken from the fallback table, has the toneLabel of its tone:
\* low gives the caution label, mid the stable label, high the rising label.
C21_ToneLabelByTone ==
  (Generated /\ output.t = "view") =>
     \A i \in 1..Len(output.fortunes) :
       output.fortunes[i].toneLabel = ClaimedToneLabel(output.fortunes[i].tone)

\* C21, where it holds: the same for the cards the entry did not author.
C21_ToneLabelOfFallbackCards ==
  (Generated /\ output.t = "view") =>
     \A i \in 1..Len(output.fortunes) :
       MatchingCards(CardKeys[i]) = {} =>
         output.fortunes[i].toneLabel = ClaimedToneLabel(output.fortunes[i].tone)

\* the card's four texts are those of the first authored card of its key
TextsOfAuthored(card, authored) ==
  /\ card.headline = Get(authored, "headline")
  /\ card.detail = Get(authored, "detail")
  /\ card.tip = Get(authored, "tip")
  /\ card.caution = Get(authored, "warning")

\* the card's four texts are the fallback table's texts of its tone
TextsOfFallback(card) ==
  /\ card.headline = FALLBACK_TEXT[card.tone].title
  /\ card.detail = FALLBACK_TEXT[card.tone].body
  /\ card.tip = FALLBACK_TEXT[card.tone].tip
  /\ card.caution = FALLBACK_TEXT[card.tone].warning

CardTextsResolved(i) ==
  IF MatchingCards(CardKeys[i]) # {}
  THEN TextsOfAuthored(output.fortunes[i], AuthoredCard(CardKeys[i]))
  ELSE TextsOfFallback(output.fortunes[i])

\* C22: for each key, when the entry's ai.cards holds a card of that
\* category the output card's headline, detail, tip and caution are the
\* headline, detail, tip and warning of the first such card; when it holds
\* none, or ai.cards is absent or no list, they are the fallback texts of
\* the card's tone.
C22_CardTextResolution ==
  (Generated /\ output.t = "view") =>
     \A i \in 1..Len(output.fortunes) : CardTextsResolved(i)

\* C22, where it holds: the same for every key but those whose first
\* authored card carries a vibe or no headline.
C22_CardTextResolutionByHeadline ==
  (Generated /\ output.t = "view") =>
     \A i \in 1..Len(output.fortunes) :
       \/ /\ MatchingCards(CardKeys[i]) # {}
          /\ \/ Truthy(Get(AuthoredCard(CardKeys[i]), "vibe"))
             \/ ~Truthy(Get(AuthoredCard(CardKeys[i]), "headline"))
       \/ CardTextsResolved(i)

\* the entry's ai.summary as the caller passed it
GivenSummary == Get(Get(GivenEntry, "ai"), "summary")

\* the non-empty fields of the AI summary, in the order they are joined
SummaryFields ==
  SelectSeq(<<Get(GivenSummary, "one_liner"), Get(GivenSummary, "focus"),
              Get(GivenSummary, "title"), Get(GivenSummary, "body")>>, Truthy)

\* the summary the specification gives the call
ClaimedSummary ==
  IF Len(SummaryFields) > 0
  THEN JStr(JoinDot([i \in 1..Len(SummaryFields) |-> SummaryFields[i].v]))
  ELSE OrElse(OrElse(Get(GivenEntry, "message_ko"), Get(GivenEntry, "message_jp")),
              GenericSummary)

\* C23: the summary of every view returned is a non-empty string: the join
\* of the non-empty AI summary fields when there is one, otherwise (no AI
\* summary, or one whose fields are all empty) the entry's message_ko, else
\* its message_jp, else the generic sentence.
C23_SummaryResolution ==
  (Generated /\ output.t = "view") =>
     /\ IsText(output.summary)
     /\ output.summary = ClaimedSummary

\* C23, where it holds: the same for every call but those whose entry has an
\* AI summary object with no non-empty field.
C23_SummaryResolutionUnlessEmptyAi ==
  (Generated /\ ~(GivenSummary.t = "obj" /\ Len(SummaryFields) = 0))
    => C23_SummaryResolution

\* ------------------------------------------------------------------------
\* Further properties of the normalizer (checked under SpecNorm)
\* ------------------------------------------------------------------------

\* the payload's date_kst as the caller passed it
GivenDate == Get(input.data, "date_kst")

\* the payload carries a string that matches the date pattern once trimmed
GivenDateMatches == GivenDate.t = "str" /\ DATE_RE_test(Trim(GivenDate.v))

\* C24: the date_kst returned always matches the date pattern; it is the
\* payload's trimmed date_kst when that matches the pattern and the current
\* KST date otherwise, and `invalid date_kst` is among the warnings, once,
\* exactly when the payload's date_kst was missing, no string or no match.
C24_DateRepair ==
  Returned =>
    /\ output.v.date_kst.t = "str"
    /\ DATE_RE_test(output.v.date_kst.v)
    /\ IF GivenDateMatches
       THEN /\ output.v.date_kst = JStr(Trim(GivenDate.v))
            /\ CountOf(OutWarnings, WarnInvalidDate) = 0
       ELSE /\ output.v.date_kst = JStr(input.today)
            /\ CountOf(OutWarnings, WarnInvalidDate) = 1

\* C24 witness: the payload's date_kst was 2026-1-5, which is no match; the
\* date returned is the current one and the warning is recorded.
C24_Witness ==
  /\ Returned
  /\ GivenDate = JStr(<<"2", "0", "2", "6", "-", "1", "-", "5">>)
  /\ output.v.date_kst = JStr(FormatDate(2026, 1, 5))
  /\ CountOf(OutWarnings, WarnInvalidDate) = 1

\* a payload's date_kst with blanks around it was kept, trimmed, without
\* the warning
C24_TrimmedKept ==
  /\ Returned
  /\ GivenDate = JStr(<<" ">> \o FormatDate(2025, 12, 31))
  /\ output.v.date_kst = JStr(FormatDate(2025, 12, 31))
  /\ CountOf(OutWarnings, WarnInvalidDate) = 0

\* how many of the warnings returned are in the set W
WarningsIn(W) == Cardinality({j \in 1..Len(OutWarnings) : OutWarnings[j] \in W})

InvalidRankWarnings == {WarnInvalidRank(i) : i \in 0..(Len(InRankings) - 1)}

DuplicateRankWarnings == {WarnDuplicateRank(r) : r \in 1..12}

\* C25: no entry is dropped silently: for a payload whose rankings is a
\* list of n entries, n is the number of entries returned plus the number
\* of `invalid rank at index i` warnings plus the number of `duplicate rank
\* r` warnings, and no index has more than one invalid-rank warning.
C25_NoSilentDrop ==
  Returned =>
    /\ Len(InRankings) =
         Len(OutRankings) + WarningsIn(InvalidRankWarnings)
           + WarningsIn(DuplicateRankWarnings)
    /\ \A i \in 0..(Len(InRankings) - 1) : CountOf(OutWarnings, WarnInvalidRank(i)) <= 1

\* C25 witness: of three entries one was kept, one had an invalid rank and
\* one repeated the rank of the first.
C25_Witness ==
  /\ Returned
  /\ Len(InRankings) = 3
  /\ Len(OutRankings) = 1
  /\ WarningsIn(InvalidRankWarnings) = 1
  /\ WarningsIn(DuplicateRankWarnings) = 1

\* C27: whenever normalizeFortuneJson returns status "ok" its warnings list
\* is empty, for every payload, also one that declares no status.
C27_OkHasNoWarnings ==
  (Returned /\ output.v.status = JStr(S_ok)) => Len(OutWarnings) = 0

\* C27, where it holds: the same for the payloads that declare a status.
C27_OkHasNoWarningsWhenDeclared ==
  Truthy(Get(input.data, "status")) => C27_OkHasNoWarnings

\* ------------------------------------------------------------------------
\* Further properties of the Result page (checked under SpecPage)
\* ------------------------------------------------------------------------

\* C26: once the effect's cleanup has run while the fetch, or the reading of
\* its body, was still in flight, the load sets no fortune and saves none
\* when the fetch settles: from a cancelled page on, the fortune shown, the
\* history and the number of generateFortune calls never change, whichever
\* way and whenever the fetch settles.
C26_TeardownDuringFetch ==
  [][page.cancelled =>
       /\ page'.fortune = page.fortune
       /\ saved' = saved
       /\ storage' = storage
       /\ calls' = calls]_vars

\* C26 witness: the cleanup ran before a successful fetch's body was read;
\* the load returned with no fortune set and nothing saved.
C26_Witness ==
  /\ page.pc = "returned"
  /\ page.cancelled
  /\ page.outcome = "ok"
  /\ page.fortune = JNull
  /\ Len(saved) = 0
  /\ storage = JNull
  /\ calls = 0

\* ------------------------------------------------------------------------
\* Properties of repeated normalization (checked under SpecRenorm)
\* ------------------------------------------------------------------------

\* the function was applied to its own result and returned
Renormalized ==
  /\ input.fn \in {"normalizeRanking", "renormalizeScores"}
  /\ calls >= 2
  /\ ~IsThrow(output)

\* C28: normalization is idempotent: normalizeRanking applied to the entry
\* it returned returns that entry again (no rank, sign_key, sign_ko, score,
\* status_tag or ai field changes), and normalizeOhaasaScores applied to the
\* scores it returned returns them again.
C28_NormalizationIdempotent ==
  Renormalized =>
    IF input.fn = "normalizeRanking"
    THEN output.ranking = firstOutput.ranking
    ELSE output = firstOutput

\* C28 witness: the entry with rank '5wi', a sign_key between blanks, a
\* trend that contains the rising syllable and scores to clamp was
\* normalized twice and came out the same, with rank 5, the trimmed key,
\* the rising tag, total 80 and love 100.
C28_Witness ==
  /\ Renormalized
  /\ input.fn = "normalizeRanking"
  /\ Get(input.entry, "rank") = JStr(<<"5", "wi">>)
  /\ output.ranking = firstOutput.ranking
  /\ Get(output.ranking, "rank") = JNum(5)
  /\ Get(output.ranking, "sign_key") = KeyAries
  /\ Get(output.ranking, "status_tag") = JStr(T_up)
  /\ Get(Get(output.ranking, "scores"), "total") = JNum(80)
  /\ Get(Get(output.ranking, "scores"), "love") = JNum(100)

\* scores were normalized twice and came out the same
C28_ScoresTwice ==
  /\ Renormalized
  /\ input.fn = "renormalizeScores"
  /\ input.scores = JObj([love |-> JNum(60), study |-> JNum(80)])
  /\ output = firstOutput
  /\ Get(output, "total") = JNum(70)

\* ------------------------------------------------------------------------
\* Properties of the Input page (checked under SpecInput)
\* ------------------------------------------------------------------------

\* C29: every birthdate the Input page lets the user submit (parts chosen
\* from the selects, the day within the month, the value not after the
\* Input page's UTC today) passes the Result page's isValidBirthdate against
\* the KST today, whenever it is submitted: the Result page never sends a
\* submission back to /input.
C29_SubmissionAccepted ==
  /\ page.pc # "redirected"
  /\ page.pc = "fetching" =>
       /\ DATE_RE_test(page.query)
       /\ StrLessEq(page.query, page.today)
       /\ StrLessEq(page.today, page.todayKst)

\* C29 witness: the birthdate submitted is the Input page's UTC today, the
\* day before the KST today, and the Result page went on to fetch.
C29_Witness ==
  /\ page.pc = "fetching"
  /\ page.query = page.today
  /\ page.todayKst # page.today
  /\ page.clock.h = 15

\* ------------------------------------------------------------------------
\* Properties of the page transition (checked under SpecAppLive)
\* ------------------------------------------------------------------------

\* the moves of the stage the specification allows
StageCycle ==
  {<<"fade-in", "fade-out">>, <<"fade-out", "pre-fade-in">>, <<"pre-fade-in", "fade-in">>}

\* displayLocation changes only on an opacity transitionend received in
\* stage fade-out, and then to the location of that moment
DisplayFollowsFadeOut ==
  [][page'.displayLocation # page.displayLocation =>
       /\ page.transitionStage = "fade-out"
       /\ page'.event = "opacity"
       /\ page'.displayLocation = page.location]_vars

\* the app ends in stage fade-in showing the latest location
SettlesOnLatest ==
  <>[](page.transitionStage = "fade-in" /\ page.displayLocation = page.location)

\* C30: the stage moves only fade-in -> fade-out -> pre-fade-in -> fade-in;
\* displayLocation changes only on an opacity transitionend received while
\* the stage is fade-out and is then the router location of that moment;
\* and after any sequence of navigations, transitionend and animation-frame
\* events firing, the app reaches stage fade-in with displayLocation equal
\* to the latest location.
C30_TransitionMachine ==
  /\ [][page'.transitionStage # page.transitionStage =>
          <<page.transitionStage, page'.transitionStage>> \in StageCycle]_vars
  /\ DisplayFollowsFadeOut
  /\ SettlesOnLatest

\* C30, where it holds: the same, the stage being also allowed to go back
\* from pre-fade-in to fade-out.
C30_TransitionMachineWithRestart ==
  /\ [][page'.transitionStage # page.transitionStage =>
          <<page.transitionStage, page'.transitionStage>>
            \in StageCycle \cup {<<"pre-fade-in", "fade-out">>}]_vars
  /\ DisplayFollowsFadeOut
  /\ SettlesOnLatest

====
